---- MODULE Spec2Model ----
(***************************************************************************)
(* Model of the slot-scheduling engine of todoist-scheduler:               *)
(* TaskDurationEstimator (duration.py), life blocks (life_blocks.py) and   *)
(* TaskScheduler (scheduler/scheduler.py), driven by repeated passes.      *)
(*                                                                         *)
(* Instants are minutes since 00:00 of day 0; day 0 is a Monday, so the    *)
(* weekday of day d is d % 7 (0 = Monday ... 6 = Sunday), as in Python's   *)
(* datetime.weekday().  Strings are sequences of one-character strings.    *)
(***************************************************************************)
EXTENDS Integers, Sequences, FiniteSets, TLC

\* ------------------------------------------------------------------------
\* constants.py
\* ------------------------------------------------------------------------
INTERVAL_MINUTES == 5
SLEEP_TIME == 1245
WEEKDAY_START_HOUR == 15
WEEKEND_START_HOUR == 9
DEFAULT_DURATION == 30
MIN_DURATION == 5

\* Python's None for integer-valued results.
NoneVal == -1

MinutesPerDay == 1440

\* ------------------------------------------------------------------------
\* datetime helpers
\* ------------------------------------------------------------------------
\* datetime.date()
DateOf(t) == t \div MinutesPerDay

\* datetime.time(), as minutes since midnight
TimeOf(t) == t % MinutesPerDay

\* datetime.hour
HourOf(t) == (t % MinutesPerDay) \div 60

\* datetime.minute
MinuteOf(t) == t % 60

\* datetime.weekday()
WeekdayOf(t) == (t \div MinutesPerDay) % 7

\* datetime.combine(date, time)
Combine(d, tm) == d * MinutesPerDay + tm

Max2(a, b) == IF a >= b THEN a ELSE b

SetMin(S) == CHOOSE x \in S : \A y \in S : x <= y

SetMax(S) == CHOOSE x \in S : \A y \in S : x >= y

\* sorted(set)
RECURSIVE SortedSeq(_)
SortedSeq(S) ==
  IF S = {} THEN <<>>
  ELSE LET m == SetMin(S) IN <<m>> \o SortedSeq(S \ {m})

\* ------------------------------------------------------------------------
\* text helpers (str, re)
\* ------------------------------------------------------------------------
DigitChars == <<"0","1","2","3","4","5","6","7","8","9">>

LowerChars == <<"a","b","c","d","e","f","g","h","i","j","k","l","m","n","o","p","q","r","s","t","u","v","w","x","y","z">>

UpperChars == <<"A","B","C","D","E","F","G","H","I","J","K","L","M","N","O","P","Q","R","S","T","U","V","W","X","Y","Z">>

Range(s) == {s[i] : i \in 1..Len(s)}

IsDigit(c) == c \in Range(DigitChars)

\* \w of the regular expression
IsWordChar(c) ==
  IsDigit(c) \/ c \in Range(LowerChars) \/ c \in Range(UpperChars) \/ c = "_"

\* str.isspace for the characters used
IsSpace(c) == c \in {" ", "\t", "\n"}

DigitVal(c) == (CHOOSE i \in 1..10 : DigitChars[i] = c) - 1

\* int("<digits>")
RECURSIVE ParseInt(_)
ParseInt(ds) ==
  IF ds = <<>> THEN 0
  ELSE 10 * ParseInt(SubSeq(ds, 1, Len(ds) - 1)) + DigitVal(ds[Len(ds)])

\* str(n) for n >= 0
RECURSIVE IntToStr(_)
IntToStr(n) ==
  IF n < 10 THEN <<DigitChars[n + 1]>>
  ELSE IntToStr(n \div 10) \o <<DigitChars[(n % 10) + 1]>>

\* str.lower() on one character
LowerChar(c) ==
  IF c \in Range(UpperChars)
  THEN LowerChars[CHOOSE i \in 1..26 : UpperChars[i] = c]
  ELSE c

\* str.lower()
Lower(s) == [i \in 1..Len(s) |-> LowerChar(s[i])]

\* str.strip()
RECURSIVE LStrip(_)
LStrip(s) ==
  IF s # <<>> /\ IsSpace(s[1]) THEN LStrip(Tail(s)) ELSE s

RECURSIVE RStrip(_)
RStrip(s) ==
  IF s # <<>> /\ IsSpace(s[Len(s)]) THEN RStrip(SubSeq(s, 1, Len(s) - 1)) ELSE s

Strip(s) == RStrip(LStrip(s))

\* kw in text
Contains(text, kw) ==
  \E i \in 1..(Len(text) - Len(kw) + 1) : SubSeq(text, i, i + Len(kw) - 1) = kw

\* Python 3 round(n / d): round half to even
PyRound(n, d) ==
  LET q == n \div d
      r == n % d
  IN  IF 2 * r < d THEN q
      ELSE IF 2 * r > d THEN q + 1
      ELSE IF q % 2 = 0 THEN q ELSE q + 1

\* ------------------------------------------------------------------------
\* TaskDurationEstimator (duration.py)
\* ------------------------------------------------------------------------
QUICK_KEYWORDS ==
  << <<"c","h","e","c","k">>,
     <<"q","u","i","c","k">>,
     <<"b","r","i","e","f">>,
     <<"s","h","o","r","t">>,
     <<"e","m","a","i","l">>,
     <<"t","e","x","t">>,
     <<"c","a","l","l">>,
     <<"r","e","v","i","e","w">>,
     <<"c","o","n","f","i","r","m">>,
     <<"v","e","r","i","f","y">>,
     <<"r","e","m","i","n","d">>,
     <<"n","o","t","e">>,
     <<"l","i","s","t">> >>

MEDIUM_KEYWORDS ==
  << <<"r","e","a","d">>,
     <<"w","a","t","c","h">>,
     <<"i","n","s","t","a","l","l">>,
     <<"s","e","t","u","p">>,
     <<"c","o","n","f","i","g","u","r","e">>,
     <<"u","p","d","a","t","e">>,
     <<"c","h","a","n","g","e">>,
     <<"c","a","n","c","e","l">>,
     <<"m","a","k","e">>,
     <<"c","r","e","a","t","e">>,
     <<"w","r","i","t","e">> >>

LONG_KEYWORDS ==
  << <<"b","u","i","l","d">>,
     <<"d","e","v","e","l","o","p">>,
     <<"i","m","p","l","e","m","e","n","t">>,
     <<"r","e","s","e","a","r","c","h">>,
     <<"s","t","u","d","y">>,
     <<"l","e","a","r","n">>,
     <<"c","l","e","a","n">>,
     <<"o","r","g","a","n","i","z","e">>,
     <<"p","r","o","j","e","c","t">>,
     <<"e","s","s","a","y">> >>

\* DURATIONS
DURATION_QUICK == 10
DURATION_MEDIUM == 25
DURATION_LONG == 45

\* DURATION_PATTERN = (\d+)m\b : the matches of findall, each <<i, j>> with
\* the digits at i..j-1 and the "m" at j.  A match starts at the first digit
\* of a maximal digit run (a scan that fails there fails at every later
\* digit of the same run).
DURATION_PATTERN(s) ==
  { m \in (1..Len(s)) \X (1..Len(s)) :
      /\ m[1] < m[2]
      /\ \A k \in m[1]..(m[2] - 1) : IsDigit(s[k])
      /\ (m[1] = 1 \/ ~IsDigit(s[m[1] - 1]))
      /\ s[m[2]] = "m"
      /\ (m[2] = Len(s) \/ ~IsWordChar(s[m[2] + 1])) }

\* variant: the first marker is taken instead of the last
parse_duration_from_description_first(description) ==
  IF description = <<>> THEN NoneVal
  ELSE LET matches == DURATION_PATTERN(description)
       IN  IF matches = {} THEN NoneVal
           ELSE LET first == CHOOSE m \in matches : \A o \in matches : m[1] <= o[1]
                    minutes == ParseInt(SubSeq(description, first[1], first[2] - 1))
                    rounded == PyRound(minutes, INTERVAL_MINUTES) * INTERVAL_MINUTES
                IN  Max2(MIN_DURATION, rounded)

parse_duration_from_description(description) ==
  IF description = <<>> THEN NoneVal
  ELSE LET matches == DURATION_PATTERN(description)
       IN  IF matches = {} THEN NoneVal
           ELSE LET last == CHOOSE m \in matches : \A o \in matches : o[1] <= m[1]
                    minutes == ParseInt(SubSeq(description, last[1], last[2] - 1))
                    rounded == PyRound(minutes, INTERVAL_MINUTES) * INTERVAL_MINUTES
                IN  Max2(MIN_DURATION, rounded)

\* variant: the marker is appended even when the description holds one
add_duration_to_description_append(description, duration) ==
  LET marker == IntToStr(duration) \o <<"m">>
  IN  IF description = <<>> THEN marker
      ELSE Strip(description \o <<" ">> \o marker)

\* variant: a description that holds a marker is returned as it is
add_duration_to_description_keep(description, duration) ==
  LET marker == IntToStr(duration) \o <<"m">>
      matches == DURATION_PATTERN(description)
  IN  IF description = <<>> THEN marker
      ELSE IF matches # {} THEN description
      ELSE Strip(description \o <<" ">> \o marker)

add_duration_to_description(description, duration) ==
  LET marker == IntToStr(duration) \o <<"m">>
      matches == DURATION_PATTERN(description)
  IN  IF description = <<>> THEN marker
      ELSE IF matches # {}
      THEN LET first == CHOOSE m \in matches : \A o \in matches : m[1] <= o[1]
           IN  SubSeq(description, 1, first[1] - 1) \o marker
                 \o SubSeq(description, first[2] + 1, Len(description))
      ELSE Strip(description \o <<" ">> \o marker)

\* variant: the buckets are tested in the order long, medium, quick
estimate_heuristic_long_first(content, description) ==
  LET text == Lower(content \o <<" ">> \o description)
  IN  IF \E i \in 1..Len(LONG_KEYWORDS) : Contains(text, LONG_KEYWORDS[i])
      THEN DURATION_LONG
      ELSE IF \E i \in 1..Len(MEDIUM_KEYWORDS) : Contains(text, MEDIUM_KEYWORDS[i])
      THEN DURATION_MEDIUM
      ELSE IF \E i \in 1..Len(QUICK_KEYWORDS) : Contains(text, QUICK_KEYWORDS[i])
      THEN DURATION_QUICK
      ELSE DEFAULT_DURATION

estimate_heuristic(content, description) ==
  LET text == Lower(content \o <<" ">> \o description)
  IN  IF \E i \in 1..Len(QUICK_KEYWORDS) : Contains(text, QUICK_KEYWORDS[i])
      THEN DURATION_QUICK
      ELSE IF \E i \in 1..Len(MEDIUM_KEYWORDS) : Contains(text, MEDIUM_KEYWORDS[i])
      THEN DURATION_MEDIUM
      ELSE IF \E i \in 1..Len(LONG_KEYWORDS) : Contains(text, LONG_KEYWORDS[i])
      THEN DURATION_LONG
      ELSE DEFAULT_DURATION

\* openrouter.estimate_minutes: reply is the first number of the model's
\* answer, NoneVal when there is no credential, the call fails or the answer
\* holds no number.
estimate_minutes(has_key, reply, interval_minutes, min_minutes) ==
  IF ~has_key THEN NoneVal
  ELSE IF reply = NoneVal THEN NoneVal
  ELSE Max2(min_minutes, PyRound(reply, interval_minutes) * interval_minutes)

estimate_with_ai(has_key, reply) ==
  estimate_minutes(has_key, reply, INTERVAL_MINUTES, MIN_DURATION)

\* variant: the AI estimate is tried before the marker
estimate_ai_first(content, description, has_key, reply) ==
  LET user_duration == parse_duration_from_description(description)
      ai_estimate == estimate_with_ai(has_key, reply)
  IN  IF ai_estimate # NoneVal THEN <<ai_estimate, FALSE>>
      ELSE IF user_duration # NoneVal THEN <<user_duration, TRUE>>
      ELSE <<estimate_heuristic(content, description), FALSE>>

\* estimate(content, description) -> <<minutes, was_user_specified>>
estimate(content, description, has_key, reply) ==
  LET user_duration == parse_duration_from_description(description)
      ai_estimate == estimate_with_ai(has_key, reply)
  IN  IF user_duration # NoneVal THEN <<user_duration, TRUE>>
      ELSE IF ai_estimate # NoneVal THEN <<ai_estimate, FALSE>>
      ELSE <<estimate_heuristic(content, description), FALSE>>

\* openrouter.estimate_priority
estimate_priority(has_key, reply) ==
  IF ~has_key THEN NoneVal
  ELSE IF reply \in {2, 4} THEN reply
  ELSE NoneVal

\* ------------------------------------------------------------------------
\* life_blocks.py
\* A life-block state is [one_off |-> Seq(block), weekly |-> Seq(block)];
\* a one-off block is [date, start, end], a weekly block [days, start, end],
\* with date a day number, start/end minutes since midnight, and NoneVal
\* for a value that _parse_date/_parse_time could not parse.
\* ------------------------------------------------------------------------
DaySlugs ==
  << <<"m","o","n">>, <<"t","u","e">>, <<"w","e","d">>, <<"t","h","u">>,
     <<"f","r","i">>, <<"s","a","t">>, <<"s","u","n">> >>

\* d.strftime("%a").lower()[:3]
weekday_slug(d) == DaySlugs[(d % 7) + 1]

\* day.strip().lower()[:3] for every non-empty day
RECURSIVE normalize_days(_)
normalize_days(days) ==
  IF days = <<>> THEN <<>>
  ELSE LET day == Head(days)
           low == Lower(Strip(day))
           cut == SubSeq(low, 1, IF Len(low) < 3 THEN Len(low) ELSE 3)
       IN  IF day = <<>> THEN normalize_days(Tail(days))
           ELSE <<cut>> \o normalize_days(Tail(days))

\* variant: "while current <= end_dt", the end instant included
expand_block_inclusive(date, start, end, interval_minutes) ==
  IF end <= start THEN {}
  ELSE LET start_dt == Combine(date, start)
           end_dt == Combine(date, end)
       IN  { start_dt + k * interval_minutes :
               k \in 0..((end_dt - start_dt) \div interval_minutes) }

expand_block(date, start, end, interval_minutes) ==
  IF end <= start THEN {}
  ELSE LET start_dt == Combine(date, start)
           end_dt == Combine(date, end)
       IN  { start_dt + k * interval_minutes :
               k \in 0..((end_dt - start_dt - 1) \div interval_minutes) }

blocked_slots_for_date(state, date, interval_minutes) ==
  LET one_off(b) ==
        IF b.date # date THEN {}
        ELSE IF b.start = NoneVal \/ b.end = NoneVal THEN {}
        ELSE expand_block(date, b.start, b.end, interval_minutes)
      weekly(b) ==
        IF weekday_slug(date) \notin Range(normalize_days(b.days)) THEN {}
        ELSE IF b.start = NoneVal \/ b.end = NoneVal THEN {}
        ELSE expand_block(date, b.start, b.end, interval_minutes)
  IN  UNION ({ one_off(state.one_off[i]) : i \in 1..Len(state.one_off) }
             \cup { weekly(state.weekly[i]) : i \in 1..Len(state.weekly) })

\* _parse_time: datetime.strptime(value.strip(), "%H:%M").time() as minutes
\* since midnight, NoneVal when strptime raises.  %H takes one or two
\* digits up to 23, %M one or two digits up to 59, and nothing may remain.
parse_time(value) ==
  LET s == Strip(value)
      colons == { i \in 1..Len(s) : s[i] = ":" }
  IN  IF Cardinality(colons) # 1 THEN NoneVal
      ELSE LET c == CHOOSE i \in colons : TRUE
               hh == SubSeq(s, 1, c - 1)
               mm == SubSeq(s, c + 1, Len(s))
           IN  IF /\ Len(hh) \in 1..2
                  /\ Len(mm) \in 1..2
                  /\ \A i \in 1..Len(hh) : IsDigit(hh[i])
                  /\ \A i \in 1..Len(mm) : IsDigit(mm[i])
                  /\ ParseInt(hh) <= 23
                  /\ ParseInt(mm) <= 59
               THEN 60 * ParseInt(hh) + ParseInt(mm)
               ELSE NoneVal

\* the start and end of a block of the file, as blocked_slots_for_date
\* reads them
parsed_block(block) ==
  [block EXCEPT !.start = parse_time(@), !.end = parse_time(@)]

\* a file whose times are texts, with every block's times parsed
parsed_blocks(file) ==
  [one_off |-> [i \in 1..Len(file.one_off) |-> parsed_block(file.one_off[i])],
   weekly |-> [i \in 1..Len(file.weekly) |-> parsed_block(file.weekly[i])]]

\* ------------------------------------------------------------------------
\* Tasks.  due = [has, timed, datetime, at, is_recurring, string]: has =
\* FALSE is task.due None; at is task.due.date (midnight of the day for a
\* plain date); timed says whether task.due.date is a datetime; datetime
\* says whether the Due object has an attribute datetime that is not None.
\* ------------------------------------------------------------------------
NoDue == [has |-> FALSE, timed |-> FALSE, datetime |-> FALSE, at |-> 0,
          is_recurring |-> FALSE, string |-> ""]

TimedDue(at) == [has |-> TRUE, timed |-> TRUE, datetime |-> TRUE, at |-> at,
                 is_recurring |-> FALSE, string |-> ""]

\* a Due object whose date is a datetime and which has no attribute
\* datetime, or has it set to None
BareTimedDue(at) == [TimedDue(at) EXCEPT !.datetime = FALSE]

\* ------------------------------------------------------------------------
\* TaskScheduler (scheduler/scheduler.py): pure helpers
\* ------------------------------------------------------------------------
is_task_completed(task) ==
  task.is_completed \/ task.completed_at # NoneVal

should_skip_reschedule(task) == "#dontchangetime" \in task.labels

\* isinstance(d, dt.datetime): d itself; a plain date: its midnight
to_datetime(due) == IF due.timed THEN due.at ELSE Combine(DateOf(due.at), 0)

get_date(due) == DateOf(due.at)

\* "if not task.due or not task.due.date: return False;
\* return getattr(task.due, "datetime", None) is None"
is_date_only_task(task) == task.due.has /\ ~task.due.datetime

num_blocks_of(duration) ==
  Max2(1, (duration + INTERVAL_MINUTES - 1) \div INTERVAL_MINUTES)

\* range(num_blocks) expanded from start
BlockRange(start, num_blocks) ==
  { start + INTERVAL_MINUTES * j : j \in 0..(num_blocks - 1) }

\* TaskScheduler.life_block_cache: the dict from dates to slot sets, with
\* the entries made since build_blocked_times emptied it
VARIABLE life_block_cache

\* "self.life_block_cache = {}"
NoCache == <<>>

\* get_life_blocks_for_date: the cached set when the date has an entry,
\* else blocked_slots_for_date, which reads the file, life being the file
\* as load_blocks reads it at that moment
get_life_blocks_for_date(life, date) ==
  IF date \in DOMAIN life_block_cache
  THEN life_block_cache[date]
  ELSE blocked_slots_for_date(life, date, INTERVAL_MINUTES)

\* the work-hour test shared by is_time_blocked and is_current_slot_valid
OutsideHours(when) ==
  LET start_hour == IF WeekdayOf(when) >= 5 THEN WEEKEND_START_HOUR
                    ELSE WEEKDAY_START_HOUR
  IN  TimeOf(when) >= SLEEP_TIME \/ HourOf(when) < start_hour

\* the three tests of is_time_blocked.  The answer does not depend on
\* their order, so the life-block test is written last; the calls of
\* get_life_blocks_for_date the code makes are those of GapLookups and
\* ScanLookups.
is_time_blocked(blocked, life, when) ==
  \/ when \in blocked
  \/ OutsideHours(when)
  \/ when \in get_life_blocks_for_date(life, DateOf(when))

\* variant: only the first instant of the range is tested
is_slot_available_first_only(blocked, recurring, life, start, num_blocks) ==
  ~(is_time_blocked(blocked, life, start) \/ start \in recurring)

is_slot_available(blocked, recurring, life, start, num_blocks) ==
  \A j \in 0..(num_blocks - 1) :
     LET check_time == start + INTERVAL_MINUTES * j
     IN  ~(is_time_blocked(blocked, life, check_time) \/ check_time \in recurring)

SEARCH_LIMIT == 10000

\* find_available_slot: the first of the SEARCH_LIMIT instants from
\* start_time, one interval apart, that is available; NoneVal stands for
\* the RuntimeError raised when the loop runs out
find_available_slot(blocked, recurring, life, start_time, num_blocks) ==
  LET time(k) == start_time + INTERVAL_MINUTES * k
      hit(k) == is_slot_available(blocked, recurring, life, time(k), num_blocks)
  IN  IF \A k \in 0..(SEARCH_LIMIT - 1) : ~hit(k) THEN NoneVal
      ELSE time(CHOOSE k \in 0..(SEARCH_LIMIT - 1) :
                  hit(k) /\ \A j \in 0..(k - 1) : ~hit(j))

\* variant: the scan is not stopped when it leaves target_date
find_available_slot_for_date_any(blocked, recurring, life, start_time, num_blocks, target_date) ==
  find_available_slot(blocked, recurring, life, start_time, num_blocks)

\* find_available_slot_for_date: the loop stops at the first instant that
\* has left target_date (None) or is available (that instant)
find_available_slot_for_date(blocked, recurring, life, start_time, num_blocks, target_date) ==
  LET time(k) == start_time + INTERVAL_MINUTES * k
      stop(k) == \/ DateOf(time(k)) # target_date
                 \/ is_slot_available(blocked, recurring, life, time(k), num_blocks)
      k0 == CHOOSE k \in 0..SEARCH_LIMIT :
              (k = SEARCH_LIMIT \/ stop(k)) /\ \A j \in 0..(k - 1) : ~stop(j)
  IN  IF k0 = SEARCH_LIMIT \/ DateOf(time(k0)) # target_date THEN NoneVal
      ELSE time(k0)

block_time_slots(blocked, start_time, num_blocks) ==
  blocked \cup BlockRange(start_time, num_blocks)

is_current_slot_valid(task, duration, today_, recurring) ==
  IF ~task.due.has THEN FALSE
  ELSE LET task_due == to_datetime(task.due)
       IN  IF DateOf(task_due) < today_ THEN FALSE
           ELSE \A j \in 0..(num_blocks_of(duration) - 1) :
                  LET check_time == task_due + INTERVAL_MINUTES * j
                  IN  ~OutsideHours(check_time) /\ check_time \notin recurring

\* variant: the append is not guarded by the marker test, so a task due
\* today without a marker is a candidate
IsBadTask_unguarded(task, today_, recurring) ==
  IF is_task_completed(task) THEN FALSE
  ELSE IF should_skip_reschedule(task) THEN FALSE
  ELSE IF ~task.due.has THEN TRUE
  ELSE IF task.due.is_recurring THEN FALSE
  ELSE LET task_due == to_datetime(task.due)
           user_duration == parse_duration_from_description(task.description)
       IN  IF DateOf(task_due) < today_ THEN TRUE
           ELSE IF DateOf(task_due) = today_
           THEN ~(user_duration # NoneVal
                  /\ is_current_slot_valid(task, user_duration, today_, recurring))
           ELSE FALSE

\* variant: a recurring task is tested like any other task
IsBadTask_recurring(task, today_, recurring) ==
  IF is_task_completed(task) THEN FALSE
  ELSE IF should_skip_reschedule(task) THEN FALSE
  ELSE IF ~task.due.has THEN TRUE
  ELSE LET task_due == to_datetime(task.due)
           user_duration == parse_duration_from_description(task.description)
       IN  IF DateOf(task_due) < today_ THEN TRUE
           ELSE IF DateOf(task_due) = today_ /\ user_duration # NoneVal
           THEN ~is_current_slot_valid(task, user_duration, today_, recurring)
           ELSE FALSE

\* variant: the overdue test is <= today instead of < today
IsBadTask_overdue_today(task, today_, recurring) ==
  IF is_task_completed(task) THEN FALSE
  ELSE IF should_skip_reschedule(task) THEN FALSE
  ELSE IF ~task.due.has THEN TRUE
  ELSE IF task.due.is_recurring THEN FALSE
  ELSE DateOf(to_datetime(task.due)) <= today_

\* the test of one task in the loop of get_bad_tasks
IsBadTask(task, today_, recurring) ==
  IF is_task_completed(task) THEN FALSE
  ELSE IF should_skip_reschedule(task) THEN FALSE
  ELSE IF ~task.due.has THEN TRUE
  ELSE IF task.due.is_recurring THEN FALSE
  ELSE LET task_due == to_datetime(task.due)
           user_duration == parse_duration_from_description(task.description)
       IN  IF DateOf(task_due) < today_ THEN TRUE
           ELSE IF DateOf(task_due) = today_
           THEN user_duration # NoneVal
                /\ ~is_current_slot_valid(task, user_duration, today_, recurring)
           ELSE FALSE

get_bad_tasks(tasks_, today_, recurring) ==
  SelectSeq(tasks_, LAMBDA task : IsBadTask(task, today_, recurring))

\* variant: the candidates are left in fetch order
SortByPriority_unsorted(ts) == ts

\* bad_tasks.sort(key=priority, reverse=True): stable, descending priority
RECURSIVE SortByPriority(_)
SortByPriority(ts) ==
  IF ts = <<>> THEN <<>>
  ELSE LET top == SetMax({ts[i].priority : i \in 1..Len(ts)})
       IN  SelectSeq(ts, LAMBDA t : t.priority = top)
             \o SortByPriority(SelectSeq(ts, LAMBDA t : t.priority # top))

\* the walk over consecutive blocked slots
RECURSIVE RunEnd(_, _)
RunEnd(blocked, t) ==
  IF (t + INTERVAL_MINUTES) \in blocked THEN RunEnd(blocked, t + INTERVAL_MINUTES)
  ELSE t

\* variant: each occupied slot is taken in isolation, without the interval
\* width in the test for a real gap
RECURSIVE BetweenGaps_naive(_, _, _)
BetweenGaps_naive(blocked, today_blocked, i) ==
  IF i > Len(today_blocked) - 1 THEN <<>>
  ELSE LET current_end == today_blocked[i]
           next_start == today_blocked[i + 1]
       IN  (IF next_start > current_end
            THEN << <<current_end + INTERVAL_MINUTES, next_start>> >>
            ELSE <<>>)
           \o BetweenGaps_naive(blocked, today_blocked, i + 1)

\* find_gaps_in_schedule: a sequence of <<gap_start, gap_end>>
RECURSIVE BetweenGaps(_, _, _)
BetweenGaps(blocked, today_blocked, i) ==
  IF i > Len(today_blocked) - 1 THEN <<>>
  ELSE LET current_end == RunEnd(blocked, today_blocked[i])
           next_start == today_blocked[i + 1]
       IN  (IF next_start > current_end + INTERVAL_MINUTES
            THEN << <<current_end + INTERVAL_MINUTES, next_start>> >>
            ELSE <<>>)
           \o BetweenGaps(blocked, today_blocked, i + 1)

find_gaps_in_schedule(blocked, today_, start_time) ==
  LET end_of_day == Combine(today_, SLEEP_TIME)
      today_blocked ==
        SortedSeq({ t \in blocked : DateOf(t) = today_ /\ t >= start_time })
  IN  IF today_blocked = <<>> THEN << <<start_time, end_of_day>> >>
      ELSE LET first == IF today_blocked[1] > start_time
                        THEN << <<start_time, today_blocked[1]>> >>
                        ELSE <<>>
               last_blocked == RunEnd(blocked, today_blocked[Len(today_blocked)])
               trailing == IF last_blocked + INTERVAL_MINUTES < end_of_day
                           THEN << <<last_blocked + INTERVAL_MINUTES, end_of_day>> >>
                           ELSE <<>>
           IN  first \o BetweenGaps(blocked, today_blocked, 1) \o trailing

\* the test of one gap in the loop of find_gap_for_task
\* variant: the recurring set is not consulted
GapFits_no_recurring(blocked, recurring, life, gap, num_blocks) ==
  /\ gap[2] - gap[1] >= num_blocks * INTERVAL_MINUTES
  /\ \A j \in 0..(num_blocks - 1) :
        ~is_time_blocked(blocked, life, gap[1] + INTERVAL_MINUTES * j)

GapFits(blocked, recurring, life, gap, num_blocks) ==
  /\ gap[2] - gap[1] >= num_blocks * INTERVAL_MINUTES
  /\ \A j \in 0..(num_blocks - 1) :
        LET check_time == gap[1] + INTERVAL_MINUTES * j
        IN  ~(check_time \in recurring \/ is_time_blocked(blocked, life, check_time))

\* variant: the last fitting gap is returned instead of the first
find_gap_for_task_last(blocked, recurring, life, gaps_, num_blocks) ==
  LET fitting == { i \in 1..Len(gaps_) :
                     GapFits(blocked, recurring, life, gaps_[i], num_blocks) }
  IN  IF fitting = {} THEN NoneVal ELSE gaps_[SetMax(fitting)][1]

find_gap_for_task(blocked, recurring, life, gaps_, num_blocks) ==
  LET fitting == { i \in 1..Len(gaps_) :
                     GapFits(blocked, recurring, life, gaps_[i], num_blocks) }
  IN  IF fitting = {} THEN NoneVal ELSE gaps_[SetMin(fitting)][1]

\* the "+ 1 hour" of min_start
LEAD_MINUTES == 60

\* now.replace(minute=0, second=0, microsecond=0)
\*   + INTERVAL_MINUTES * ((now.minute + INTERVAL_MINUTES - 1) // INTERVAL_MINUTES)
RoundUpToInterval(m) ==
  (m - MinuteOf(m))
    + INTERVAL_MINUTES * ((MinuteOf(m) + INTERVAL_MINUTES - 1) \div INTERVAL_MINUTES)

\* now_rounded of schedule_non_recurring_tasks; now is [min, sec]
SearchStart(now_) ==
  LET min_start_rounded == RoundUpToInterval(now_.min + LEAD_MINUTES)
  IN  Max2(min_start_rounded, RoundUpToInterval(now_.min))

\* ------------------------------------------------------------------------
\* Bounds and input sets
\* ------------------------------------------------------------------------
\* number of tasks in the remote store
MaxTasks == 3

\* number of passes the notifier loop starts
MaxPasses == 2

\* minutes between two passes (SCHEDULER_INTERVAL_SECONDS = 300)
SCHEDULER_INTERVAL_MINUTES == 5

\* first numbers of the AI's answers (NoneVal: failure or no number)
AIMinuteReplies == {NoneVal, 3, 12}

AIPriorityReplies == {NoneVal, 3, 4}

At(day, hh, mm) == Combine(day, 60 * hh + mm)

NoLife == [one_off |-> <<>>, weekly |-> <<>>]

\* the environments a scheduler is started in: its day, the clock, the
\* life-block file and whether the AI credential is configured.
\*   Friday 19:30:30, a nearly full day;  Friday 14:10 with a one-off life
\*   block and a credential;  Saturday 07:33 with a weekly life block;
\*   Wednesday 16:12:10, an empty day.
Envs ==
  { [today |-> 4, now |-> [min |-> At(4, 19, 30), sec |-> 30], life |-> NoLife,
     has_key |-> FALSE],
    [today |-> 4, now |-> [min |-> At(4, 14, 10), sec |-> 0],
     life |-> [one_off |-> << [date |-> 4, start |-> 16 * 60, end |-> 16 * 60 + 10] >>,
               weekly |-> <<>>],
     has_key |-> TRUE],
    [today |-> 5, now |-> [min |-> At(5, 7, 33), sec |-> 0],
     life |-> [one_off |-> <<>>,
               weekly |-> << [days |-> << <<"S","a","t"," ">>, <<"s","u","n">> >>,
                              start |-> 10 * 60, end |-> 10 * 60 + 10] >>],
     has_key |-> FALSE],
    [today |-> 2, now |-> [min |-> At(2, 16, 12), sec |-> 10], life |-> NoLife,
     has_key |-> FALSE] }

Task(id, content, description, due, priority) ==
  [id |-> id, content |-> content, description |-> description, due |-> due,
   priority |-> priority, is_completed |-> FALSE, completed_at |-> NoneVal,
   labels |-> {}]

Recurring(due) == [due EXCEPT !.is_recurring = TRUE, !.string = "every day"]

DateDue(day) == [has |-> TRUE, timed |-> FALSE, datetime |-> FALSE,
                 at |-> Combine(day, 0), is_recurring |-> FALSE, string |-> ""]

\* the tasks a store may hold on day d, in the order the store lists them
TaskPool(d) ==
  << Task(1, <<"a">>, <<"5","m">>, NoDue, 4),
     Task(2, <<"b">>, <<"2","0","m">>, TimedDue(At(d, 20, 30)), 2),
     Task(3, <<"R","e","a","d">>, <<>>, NoDue, 1),
     Task(4, <<"c">>, <<"x"," ","5","m">>, TimedDue(At(d - 1, 16, 0)), 2),
     Task(5, <<"d">>, <<"2","0","m">>, Recurring(TimedDue(At(d, 20, 30))), 2),
     Task(6, <<"e">>, <<>>, Recurring(TimedDue(At(d - 1, 10, 0))), 2),
     Task(7, <<"f">>, <<"x">>, TimedDue(At(d, 16, 0)), 2),
     Task(8, <<"g">>, <<"5","m">>, TimedDue(At(d, 20, 30)), 2),
     Task(9, <<"h">>, <<"5","m">>, DateDue(d), 3),
     Task(10, <<"r","e","a","d">>, <<>>, DateDue(d - 1), 2),
     [Task(11, <<"j">>, <<>>, NoDue, 2) EXCEPT !.is_completed = TRUE],
     [Task(12, <<"k">>, <<>>, NoDue, 2) EXCEPT !.labels = {"#dontchangetime"}],
     [Task(13, <<"l">>, <<"5","m">>, TimedDue(At(d - 1, 16, 0)), 2)
        EXCEPT !.labels = {"#testnotification"}],
     Task(14, <<"r","e","a","d"," ","b">>, <<" ","x">>, NoDue, 2),
     [Task(15, <<"n">>, <<>>, Recurring(TimedDue(At(d - 1, 10, 0))), 2)
        EXCEPT !.completed_at = At(d - 1, 11, 0)] >>

\* the tasks of the pool at the indices of S, in pool order
Pick(pool, S) == LET ix == SortedSeq(S) IN [i \in 1..Len(ix) |-> pool[ix[i]]]

\* the notifier loop is not part of the run
NoNotifier == <<>>

\* ------------------------------------------------------------------------
\* State
\* ------------------------------------------------------------------------
VARIABLES
  store,            \* the remote task store, in listing order
  life,             \* the life-block file
  has_key,          \* OPENROUTER_KEY is configured
  now,              \* the clock of the current pass: [min, sec]
  today,            \* TaskScheduler.today
  tasks,            \* TaskScheduler.tasks
  blocked_slots,    \* TaskScheduler.blocked_slots
  recurring_slots,  \* TaskScheduler.recurring_slots
  bad_tasks,        \* the sorted candidates of schedule_non_recurring_tasks
  idx,              \* position of its for loop in bad_tasks
  gaps,             \* its gap list
  now_rounded,      \* its search start
  pc,               \* position of run() in the current pass
  pass,             \* number of the current pass
  updates,          \* the update_task calls the store accepted
  placed,           \* the placements written: [id, start, num_blocks, pass]
  outcome,          \* how each earlier pass ended: "done" or "failed"
  raised,           \* the exception that ended run() in this pass, "" if none
  arg,              \* the arguments of a function applied on its own
  ret,              \* and what it returned
  notifier          \* TaskNotifier.run: its clock, its locals, its threads

vars == << store, life, has_key, now, today, tasks, blocked_slots,
           recurring_slots, life_block_cache, bad_tasks, idx, gaps, now_rounded, pc, pass,
           updates, placed, outcome, raised, arg, ret, notifier >>

Init ==
  \E env \in Envs :
    \E S \in { X \in SUBSET (1..Len(TaskPool(env.today))) : Cardinality(X) <= MaxTasks } :
      /\ store = Pick(TaskPool(env.today), S)
      /\ life = env.life
      /\ has_key = env.has_key
      /\ now = env.now
      /\ today = env.today
      /\ tasks = <<>>
      /\ blocked_slots = {}
      /\ recurring_slots = {}
      /\ life_block_cache = NoCache
      /\ bad_tasks = <<>>
      /\ idx = 1
      /\ gaps = <<>>
      /\ now_rounded = 0
      /\ pc = "fetch"
      /\ pass = 1
      /\ updates = <<>>
      /\ placed = <<>>
      /\ outcome = <<>>
      /\ raised = ""
      /\ notifier = NoNotifier
      /\ arg = <<>>
      /\ ret = <<>>

\* ------------------------------------------------------------------------
\* The remote store
\* ------------------------------------------------------------------------
\* update_task(id, priority=p)
StoreSetPriority(st, id, p) ==
  [i \in 1..Len(st) |-> IF st[i].id = id THEN [st[i] EXCEPT !.priority = p] ELSE st[i]]

\* update_task(id, due_string=s): the store's recurrence engine moves the
\* due date to day, keeping the time of day and the recurrence
StoreSetDueString(st, id, day) ==
  [i \in 1..Len(st) |->
     IF st[i].id = id
     THEN [st[i] EXCEPT !.due.at = Combine(day, TimeOf(st[i].due.at))]
     ELSE st[i]]

\* update_task(id, due_datetime=t[, description=d]); set_desc says whether
\* a description was passed
StoreSetDue(st, id, t, set_desc, d) ==
  [i \in 1..Len(st) |->
     IF st[i].id = id
     THEN [st[i] EXCEPT !.due = TimedDue(t),
                        !.description = IF set_desc THEN d ELSE @]
     ELSE st[i]]

\* an entry of the log of accepted update_task calls
Update(kind, id, at, set_desc, description, priority, string) ==
  [kind |-> kind, id |-> id, at |-> at, set_desc |-> set_desc,
   description |-> description, priority |-> priority, string |-> string,
   pass |-> pass]

\* ------------------------------------------------------------------------
\* TaskScheduler.run(), step by step
\* ------------------------------------------------------------------------
\* fetch_tasks: self.tasks is emptied and extended page by page, then the
\* #testnotification tasks are dropped
fetch_tasks(st) == SelectSeq(st, LAMBDA t : "#testnotification" \notin t.labels)

\* what self.tasks can hold when the iterator of get_tasks raises: the pages
\* received before the request that raised, not filtered.  The page size is
\* the library's, so every prefix short of the whole store is possible.
fetch_tasks_raised(st) ==
  { SubSeq(st, 1, k) : k \in 0..(IF Len(st) = 0 THEN 0 ELSE Len(st) - 1) }

FetchTasks ==
  /\ pc \in {"fetch", "refetch"}
  /\ \E ok \in BOOLEAN :
       IF ok
       THEN /\ tasks' = fetch_tasks(store)
            /\ pc' = IF pc = "fetch" THEN "prio" ELSE "rebuild"
            /\ raised' = raised
       ELSE /\ pc' = "failed"
            /\ tasks' \in fetch_tasks_raised(store)
            /\ raised' = "get_tasks"
  /\ UNCHANGED << store, life, has_key, now, today, blocked_slots, recurring_slots, life_block_cache,
                  bad_tasks, idx, gaps, now_rounded, pass, updates, placed, outcome,
                  arg, ret, notifier >>

\* apply_auto_priorities: replies[i] is the AI's answer for tasks[i]; calls
\* lists the indices whose update_task is issued, of which the first n are
\* accepted and the next one (if any) raises.
ApplyAutoPriorities ==
  /\ pc = "prio"
  /\ LET targets == { i \in 1..Len(tasks) : tasks[i].priority = 1 }
     IN  \E replies \in [targets -> IF has_key THEN AIPriorityReplies ELSE {NoneVal}] :
           LET new_priority(i) == estimate_priority(has_key, replies[i])
               calls == SortedSeq({ i \in targets : new_priority(i) # NoneVal })
           IN  \E n \in 0..Len(calls) :
                 LET done == { calls[k] : k \in 1..n }
                     ids == { tasks[i].id : i \in done }
                     prio_of(id) == new_priority(CHOOSE i \in done : tasks[i].id = id)
                 IN  /\ tasks' = [i \in 1..Len(tasks) |->
                                    IF i \in done
                                    THEN [tasks[i] EXCEPT !.priority = new_priority(i)]
                                    ELSE tasks[i]]
                     /\ store' = [i \in 1..Len(store) |->
                                    IF store[i].id \in ids
                                    THEN [store[i] EXCEPT !.priority = prio_of(store[i].id)]
                                    ELSE store[i]]
                     /\ updates' = updates \o
                          [k \in 1..n |->
                             Update("priority", tasks[calls[k]].id, NoneVal, FALSE, <<>>,
                                    new_priority(calls[k]), "")]
                     /\ pc' = IF n = Len(calls) THEN "build" ELSE "failed"
                     /\ raised' = IF n = Len(calls) THEN raised
                                  ELSE "update_task(priority)"
  /\ UNCHANGED << life, has_key, now, today, blocked_slots, recurring_slots, life_block_cache,
                  bad_tasks, idx, gaps, now_rounded, pass, placed, outcome,
                  arg, ret, notifier >>

\* build_blocked_times: <<blocked_slots, recurring_slots>>
build_blocked_times(life_, today_) ==
  << blocked_slots_for_date(life_, today_, INTERVAL_MINUTES), {} >>

\* variant: the slots of the recurring tasks due today are put in the
\* recurring set and not in the occupied set
BuildBlockedTimes_recurring_only ==
  /\ pc \in {"build", "rebuild"}
  /\ blocked_slots' = build_blocked_times(life, today)[1]
  /\ recurring_slots' =
       { to_datetime(tasks[i].due) :
           i \in { j \in 1..Len(tasks) :
                     /\ tasks[j].due.has
                     /\ tasks[j].due.is_recurring
                     /\ DateOf(to_datetime(tasks[j].due)) = today } }
  /\ life_block_cache' = NoCache
  /\ pc' = IF pc = "build" THEN "resched" ELSE "select"
  /\ UNCHANGED << store, life, has_key, now, today, tasks, bad_tasks, idx, gaps,
                  now_rounded, pass, updates, placed, outcome, raised, arg, ret,
                  notifier >>

BuildBlockedTimes ==
  /\ pc \in {"build", "rebuild"}
  /\ blocked_slots' = build_blocked_times(life, today)[1]
  /\ recurring_slots' = build_blocked_times(life, today)[2]
  /\ life_block_cache' = NoCache
  /\ pc' = IF pc = "build" THEN "resched" ELSE "select"
  /\ UNCHANGED << store, life, has_key, now, today, tasks, bad_tasks, idx, gaps,
                  now_rounded, pass, updates, placed, outcome, raised, arg, ret,
                  notifier >>

\* variant: a task due today counts as overdue
IsOverdueRecurring_today(task, today_) ==
  /\ ~is_task_completed(task)
  /\ task.due.has
  /\ task.due.is_recurring
  /\ get_date(task.due) <= today_

\* the selection of reschedule_overdue_recurring
IsOverdueRecurring(task, today_) ==
  /\ ~is_task_completed(task)
  /\ task.due.has
  /\ task.due.is_recurring
  /\ get_date(task.due) < today_

\* run(): "if rescheduled > 0" the tasks are fetched and the blocked times
\* built again; without it the variant goes straight on
run_after_reschedule_never(rescheduled) == "select"

run_after_reschedule(rescheduled) ==
  IF rescheduled > 0 THEN "refetch" ELSE "select"

\* reschedule_overdue_recurring: the store moves each resubmitted task to
\* the day it computes (days[i]: the current day or the next one); the
\* first n calls are accepted and the next one (if any) raises.
RescheduleOverdueRecurring ==
  /\ pc = "resched"
  /\ LET overdue == SortedSeq({ i \in 1..Len(tasks) : IsOverdueRecurring(tasks[i], today) })
         real_today == DateOf(now.min)
     IN  \E days \in [Range(overdue) -> {real_today, real_today + 1}] :
           \E n \in 0..Len(overdue) :
             LET done == { overdue[k] : k \in 1..n }
                 day_of(id) == days[CHOOSE i \in done : tasks[i].id = id]
             IN  /\ store' = [i \in 1..Len(store) |->
                                IF store[i].id \in { tasks[j].id : j \in done }
                                THEN StoreSetDueString(store, store[i].id,
                                                       day_of(store[i].id))[i]
                                ELSE store[i]]
                 /\ updates' = updates \o
                      [k \in 1..n |->
                         Update("due_string", tasks[overdue[k]].id, NoneVal, FALSE, <<>>,
                                NoneVal, tasks[overdue[k]].due.string)]
                 /\ pc' = IF n < Len(overdue) THEN "failed"
                          ELSE run_after_reschedule(Len(overdue))
                 /\ raised' = IF n < Len(overdue) THEN "update_task(due_string)"
                              ELSE raised
  /\ UNCHANGED << life, has_key, now, today, tasks, blocked_slots, recurring_slots, life_block_cache,
                  bad_tasks, idx, gaps, now_rounded, pass, placed, outcome,
                  arg, ret, notifier >>

\* schedule_non_recurring_tasks up to its for loop
StartScheduling ==
  /\ pc = "select"
  /\ bad_tasks' = SortByPriority(get_bad_tasks(tasks, today, recurring_slots))
  /\ now_rounded' = SearchStart(now)
  /\ gaps' = find_gaps_in_schedule(blocked_slots, today, SearchStart(now))
  /\ idx' = 1
  /\ pc' = "place"
  /\ UNCHANGED << store, life, has_key, now, today, tasks, blocked_slots,
                  recurring_slots, life_block_cache, pass, updates, placed, outcome, raised, arg, ret,
                  notifier >>

\* "if check_time in self.recurring_slots or self.is_time_blocked(...)" and
\* "if self.is_time_blocked(check_time) or check_time in
\* self.recurring_slots" are both false
IsFree(blocked, recurring, life_, check_time) ==
  ~(check_time \in recurring \/ is_time_blocked(blocked, life_, check_time))

\* the instants for which find_gap_for_task reaches
\* get_life_blocks_for_date: in every gap that is long enough, up to the
\* one it returns, the instants up to the first that is not free, those
\* of recurring_slots and blocked_slots left out
GapLookups(blocked, recurring, life_, gaps_, num_blocks) ==
  LET fitting == { i \in 1..Len(gaps_) :
                     GapFits(blocked, recurring, life_, gaps_[i], num_blocks) }
      last == IF fitting = {} THEN Len(gaps_) ELSE SetMin(fitting)
      time(q) == gaps_[q[1]][1] + INTERVAL_MINUTES * q[2]
  IN  { time(q) :
          q \in { r \in (1..last) \X (0..(num_blocks - 1)) :
                    /\ gaps_[r[1]][2] - gaps_[r[1]][1] >= num_blocks * INTERVAL_MINUTES
                    /\ time(r) \notin recurring \cup blocked
                    /\ \A j \in 0..(r[2] - 1) :
                          IsFree(blocked, recurring, life_, time(<<r[1], j>>)) } }

\* the instants one call of is_slot_available passes to is_time_blocked:
\* start + INTERVAL_MINUTES * j for j = 0, 1, ... up to the first that is
\* not free
SlotTests(blocked, recurring, life_, start, num_blocks) ==
  LET time(j) == start + INTERVAL_MINUTES * j
      stops == { j \in 0..(num_blocks - 1) :
                   ~IsFree(blocked, recurring, life_, time(j)) }
      last == IF stops = {} THEN num_blocks - 1 ELSE SetMin(stops)
  IN  { time(j) : j \in 0..last }

\* the instants for which the turns 0..last of the loop of
\* find_available_slot or find_available_slot_for_date reach
\* get_life_blocks_for_date.  The instants up to the last turn's are each
\* the first of a turn, and those after it are tested by the last turn if
\* by any; an instant of blocked_slots is answered before the life blocks
\* are asked for.
ScanLookups(blocked, recurring, life_, start_time, num_blocks, last) ==
  LET time(m) == start_time + INTERVAL_MINUTES * m
  IN  IF last < 0 THEN {}
      ELSE ({ time(m) : m \in 0..last }
              \cup SlotTests(blocked, recurring, life_, time(last), num_blocks))
             \ blocked

\* the last turn of the loop of find_available_slot that calls
\* is_slot_available, time_slot being what it returned (NoneVal: it raised)
LastScanTurn(start_time, time_slot) ==
  IF time_slot = NoneVal THEN SEARCH_LIMIT - 1
  ELSE (time_slot - start_time) \div INTERVAL_MINUTES

\* the same for find_available_slot_for_date: when it returns None the
\* turns that call is_slot_available are those of target_date (-1: none)
LastScanTurnForDate(start_time, target_date, time_slot) ==
  IF time_slot # NoneVal THEN (time_slot - start_time) \div INTERVAL_MINUTES
  ELSE IF DateOf(start_time) # target_date THEN -1
  ELSE LET left == (Combine(target_date + 1, 0) - start_time + INTERVAL_MINUTES - 1)
                      \div INTERVAL_MINUTES
       IN  (IF left < SEARCH_LIMIT THEN left ELSE SEARCH_LIMIT) - 1

\* the dates for which the slot search of one loop turn calls
\* get_life_blocks_for_date, time_slot being what the search gave
TurnLookups(task, num_blocks, blocked, recurring, life_, gaps_, start, time_slot) ==
  LET gap_slot == find_gap_for_task(blocked, recurring, life_, gaps_, num_blocks)
      in_gaps == GapLookups(blocked, recurring, life_, gaps_, num_blocks)
      in_scan ==
        IF gap_slot # NoneVal THEN {}
        ELSE IF is_date_only_task(task)
        THEN ScanLookups(blocked, recurring, life_, start, num_blocks,
               LastScanTurnForDate(start, get_date(task.due), time_slot))
        ELSE ScanLookups(blocked, recurring, life_, start, num_blocks,
               LastScanTurn(start, time_slot))
  IN  { DateOf(t) : t \in in_gaps \cup in_scan }

\* the slot search of one loop turn: NoneVal when nothing was found
FindSlot(task, num_blocks, blocked, recurring, life_, gaps_, start, today_) ==
  LET gap_slot == find_gap_for_task(blocked, recurring, life_, gaps_, num_blocks)
  IN  IF gap_slot # NoneVal THEN gap_slot
      ELSE IF is_date_only_task(task)
      THEN find_available_slot_for_date(blocked, recurring, life_, start, num_blocks,
                                        get_date(task.due))
      ELSE find_available_slot(blocked, recurring, life_, start, num_blocks)

\* "Unblock old slot if this task was previously scheduled"
UnblockOld(blocked, task) ==
  IF task.due.has /\ to_datetime(task.due) \in blocked
  THEN blocked \ {to_datetime(task.due)}
  ELSE blocked

\* variant: the description is never passed to update_task
WritesDescription_never(was_user_specified) == FALSE

\* "if not was_user_specified": update_task gets the stamped description
WritesDescription(was_user_specified) == ~was_user_specified

\* variant: no date-only candidate is skipped for its date
SkipsDateOnly_never(task, today_) == FALSE

\* "if target_date != self.today: continue" for a date-only candidate
SkipsDateOnly(task, today_) ==
  is_date_only_task(task) /\ get_date(task.due) # today_

\* what estimate_with_ai may give in this loop turn: the reply already
\* received when the turn is under way (ret), any reply otherwise
TurnReplies(ai_called) ==
  IF ~ai_called THEN {NoneVal}
  ELSE IF ret # <<>> THEN {ret[1]}
  ELSE AIMinuteReplies

\* life_block_cache after get_life_blocks_for_date was called for dates
FillCache(dates) ==
  [d \in DOMAIN life_block_cache \cup dates |->
     get_life_blocks_for_date(life, d)]

\* one turn of the for loop of schedule_non_recurring_tasks
PlaceEach ==
  /\ pc = "place"
  /\ idx <= Len(bad_tasks)
  /\ LET task == bad_tasks[idx]
         current_desc == task.description
         ai_called == has_key /\ parse_duration_from_description(current_desc) = NoneVal
     IN  \E reply \in TurnReplies(ai_called) :
         \E est \in {estimate(task.content, current_desc, has_key, reply)} :
         \E skip_date \in {SkipsDateOnly(task, today)} :
         \E time_slot \in {IF skip_date THEN NoneVal
                           ELSE FindSlot(task, num_blocks_of(est[1]), blocked_slots,
                                         recurring_slots, life, gaps, now_rounded, today)} :
           LET duration == est[1]
               was_user_specified == est[2]
               num_blocks == num_blocks_of(duration)
               new_description == add_duration_to_description(current_desc, duration)
           IN  /\ life_block_cache' =
                    IF skip_date THEN life_block_cache
                    ELSE FillCache(TurnLookups(task, num_blocks, blocked_slots,
                                               recurring_slots, life, gaps,
                                               now_rounded, time_slot))
               /\ IF is_date_only_task(task) /\ (skip_date \/ time_slot = NoneVal)
                  THEN \* continue
                       /\ idx' = idx + 1
                       /\ UNCHANGED << store, blocked_slots, pc, updates, placed, raised >>
                  ELSE IF time_slot = NoneVal
                  THEN \* RuntimeError("Could not find available time slot")
                       /\ pc' = "failed"
                       /\ raised' = "RuntimeError"
                       /\ UNCHANGED << store, blocked_slots, idx, updates, placed >>
                  ELSE /\ blocked_slots' =
                            block_time_slots(UnblockOld(blocked_slots, task), time_slot,
                                             num_blocks)
                       /\ \E ok \in BOOLEAN :
                            IF ok
                            THEN /\ store' = StoreSetDue(store, task.id, time_slot,
                                                         WritesDescription(was_user_specified),
                                                         new_description)
                                 /\ updates' = Append(updates,
                                      Update("due_datetime", task.id, time_slot,
                                             WritesDescription(was_user_specified),
                                             IF WritesDescription(was_user_specified)
                                             THEN new_description ELSE <<>>,
                                             NoneVal, ""))
                                 /\ placed' = Append(placed,
                                      [id |-> task.id, start |-> time_slot,
                                       num_blocks |-> num_blocks, pass |-> pass])
                                 /\ idx' = idx + 1
                                 /\ pc' = pc
                                 /\ raised' = raised
                            ELSE /\ pc' = "failed"
                                 /\ raised' = "update_task(due_datetime)"
                                 /\ UNCHANGED << store, idx, updates, placed >>
  /\ ret' = <<>>
  /\ UNCHANGED << life, has_key, now, today, tasks, recurring_slots, bad_tasks,
                  gaps, now_rounded, pass, outcome, arg, notifier >>

\* the for loop is exhausted: run() returns
FinishPass ==
  /\ pc = "place"
  /\ idx > Len(bad_tasks)
  /\ pc' = "done"
  /\ UNCHANGED << store, life, has_key, now, today, tasks, blocked_slots,
                  recurring_slots, life_block_cache, bad_tasks, idx, gaps, now_rounded, pass,
                  updates, placed, outcome, raised, arg, ret, notifier >>

\* TaskNotifier.run: the next scheduler.run() on the same TaskScheduler, an
\* exception of the previous one having been swallowed
NextPass ==
  /\ pc \in {"done", "failed"}
  /\ pass < MaxPasses
  /\ pass' = pass + 1
  /\ now' = [now EXCEPT !.min = @ + SCHEDULER_INTERVAL_MINUTES]
  /\ pc' = "fetch"
  /\ outcome' = Append(outcome, pc)
  /\ raised' = ""
  /\ UNCHANGED << store, life, has_key, today, tasks, blocked_slots,
                  recurring_slots, life_block_cache, bad_tasks, idx, gaps, now_rounded, updates,
                  placed, arg, ret, notifier >>

Next ==
  \/ FetchTasks
  \/ ApplyAutoPriorities
  \/ BuildBlockedTimes
  \/ RescheduleOverdueRecurring
  \/ StartScheduling
  \/ PlaceEach
  \/ FinishPass
  \/ NextPass

Spec == Init /\ [][Next]_vars

TypeOK ==
  /\ pc \in {"fetch", "prio", "build", "resched", "refetch", "rebuild", "select",
             "place", "done", "failed"}
  /\ pass \in 1..MaxPasses
  /\ idx \in 1..(Len(bad_tasks) + 1)

\* ------------------------------------------------------------------------
\* The passes over a store that holds a task too long for any day
\* ------------------------------------------------------------------------
\* number of other tasks in the store
MaxCompanions == 1

\* the other tasks come from these of the pool: a candidate of higher
\* priority, an overdue recurring task, a date-only task due today
ExhaustCompanions == {1, 6, 9}

\* 710 minutes are 142 blocks; the longest working day, 09:00 to 20:45 on a
\* weekend, has 141.  The task has no due, or is a date-only task of day d.
LongTasks(d) ==
  { Task(16, <<"m">>, <<"7","1","0","m">>, NoDue, 2),
    Task(17, <<"o">>, <<"7","1","0","m">>, DateDue(d), 2) }

InitExhaust ==
  \E env \in Envs :
    \E S \in { X \in SUBSET ExhaustCompanions : Cardinality(X) <= MaxCompanions } :
      /\ \E long \in LongTasks(env.today) :
           store = Pick(TaskPool(env.today), S) \o << long >>
      /\ life = env.life
      /\ has_key = env.has_key
      /\ now = env.now
      /\ today = env.today
      /\ tasks = <<>>
      /\ blocked_slots = {}
      /\ recurring_slots = {}
      /\ life_block_cache = NoCache
      /\ bad_tasks = <<>>
      /\ idx = 1
      /\ gaps = <<>>
      /\ now_rounded = 0
      /\ pc = "fetch"
      /\ pass = 1
      /\ updates = <<>>
      /\ placed = <<>>
      /\ outcome = <<>>
      /\ raised = ""
      /\ notifier = NoNotifier
      /\ arg = <<>>
      /\ ret = <<>>

SpecExhaust == InitExhaust /\ [][Next]_vars

\* ------------------------------------------------------------------------
\* The passes of a scheduler that was constructed shortly before midnight
\* ------------------------------------------------------------------------
\* the store holds some of these tasks of the pool: two without due, an
\* overdue recurring one, a date-only one due on the day of construction
MidnightPool == {1, 3, 6, 9}

\* Friday 23:57:00: TaskScheduler.__init__ takes today from the clock, and
\* the next pass starts SCHEDULER_INTERVAL_MINUTES later, on Saturday
InitMidnight ==
  \E S \in SUBSET MidnightPool :
    /\ store = Pick(TaskPool(4), S)
    /\ life = NoLife
    /\ has_key = FALSE
    /\ now = [min |-> At(4, 23, 57), sec |-> 0]
    /\ today = DateOf(At(4, 23, 57))
    /\ tasks = <<>>
    /\ blocked_slots = {}
    /\ recurring_slots = {}
    /\ life_block_cache = NoCache
    /\ bad_tasks = <<>>
    /\ idx = 1
    /\ gaps = <<>>
    /\ now_rounded = 0
    /\ pc = "fetch"
    /\ pass = 1
    /\ updates = <<>>
    /\ placed = <<>>
    /\ outcome = <<>>
    /\ raised = ""
    /\ notifier = NoNotifier
    /\ arg = <<>>
    /\ ret = <<>>

SpecMidnight == InitMidnight /\ [][Next]_vars

\* ------------------------------------------------------------------------
\* The passes over a store that holds a task with the #dontchangetime label
\* ------------------------------------------------------------------------
\* the other tasks come from these of the pool: a candidate, an overdue
\* recurring task, a task with #dontchangetime and no due, a task with
\* #testnotification
LabelCompanions == {1, 6, 12, 13}

\* tasks with the #dontchangetime label and a due before day d: one
\* recurring, one not
LabelTasks(d) ==
  { [Task(18, <<"p">>, <<>>, Recurring(TimedDue(At(d - 1, 10, 0))), 2)
       EXCEPT !.labels = {"#dontchangetime"}],
    [Task(19, <<"q">>, <<"5","m">>, TimedDue(At(d - 1, 16, 0)), 2)
       EXCEPT !.labels = {"#dontchangetime"}] }

InitLabels ==
  \E env \in Envs :
    \E S \in { X \in SUBSET LabelCompanions : Cardinality(X) <= MaxCompanions } :
      /\ \E labelled \in LabelTasks(env.today) :
           store = Pick(TaskPool(env.today), S) \o << labelled >>
      /\ life = env.life
      /\ has_key = env.has_key
      /\ now = env.now
      /\ today = env.today
      /\ tasks = <<>>
      /\ blocked_slots = {}
      /\ recurring_slots = {}
      /\ life_block_cache = NoCache
      /\ bad_tasks = <<>>
      /\ idx = 1
      /\ gaps = <<>>
      /\ now_rounded = 0
      /\ pc = "fetch"
      /\ pass = 1
      /\ updates = <<>>
      /\ placed = <<>>
      /\ outcome = <<>>
      /\ raised = ""
      /\ notifier = NoNotifier
      /\ arg = <<>>
      /\ ret = <<>>

SpecLabels == InitLabels /\ [][Next]_vars

\* ------------------------------------------------------------------------
\* find_gaps_in_schedule as a function of its inputs
\* ------------------------------------------------------------------------
\* number of grid instants the occupied set is drawn from
GapGridLen == 8

\* the grid 20:15 .. 20:50 of day 4 (the sleep boundary 20:45 included)
GapGrid == { At(4, 20, 15) + INTERVAL_MINUTES * k : k \in 0..(GapGridLen - 1) }

\* the occupied set of the example: 09:00, 09:05, 09:10
GapExample == { At(4, 9, 0), At(4, 9, 5), At(4, 9, 10) }

GapStarts == { At(4, 9, 0), At(4, 20, 15), At(4, 20, 30), At(4, 20, 45), At(4, 20, 50) }

InitGaps ==
  /\ blocked_slots \in (SUBSET GapGrid) \cup { GapExample }
  /\ now_rounded \in GapStarts
  /\ today = 4
  /\ gaps = <<>>
  /\ pc = "gaps_in"
  /\ store = <<>>
  /\ life = NoLife
  /\ has_key = FALSE
  /\ now = [min |-> 0, sec |-> 0]
  /\ tasks = <<>>
  /\ recurring_slots = {}
  /\ life_block_cache = NoCache
  /\ bad_tasks = <<>>
  /\ idx = 1
  /\ pass = 1
  /\ updates = <<>>
  /\ placed = <<>>
  /\ outcome = <<>>
  /\ raised = ""
  /\ notifier = NoNotifier
  /\ arg = <<>>
  /\ ret = <<>>

ApplyGaps ==
  /\ pc = "gaps_in"
  /\ gaps' = find_gaps_in_schedule(blocked_slots, today, now_rounded)
  /\ pc' = "gaps_out"
  /\ UNCHANGED << store, life, has_key, now, today, tasks, blocked_slots,
                  recurring_slots, life_block_cache, bad_tasks, idx, now_rounded, pass, updates,
                  placed, outcome, raised, arg, ret, notifier >>

SpecGaps == InitGaps /\ [][ApplyGaps]_vars

\* ------------------------------------------------------------------------
\* find_gap_for_task as a function of its inputs
\* ------------------------------------------------------------------------
\* longest gap list and largest block count tried
MaxGaps == 2

MaxBlocks == 3

\* instants of Friday evening up to the sleep boundary, and gaps over them;
\* one more gap starts before the weekday start hour
FitGrid == { At(4, 20, 30), At(4, 20, 35), At(4, 20, 40) }

FitPoints == { At(4, 20, 25) } \cup FitGrid \cup { At(4, 20, 45) }

FitGaps ==
  { g \in FitPoints \X FitPoints : g[1] < g[2] } \cup { <<At(4, 14, 55), At(4, 15, 10)>> }

FitGapLists == UNION { [1..n -> FitGaps] : n \in 0..MaxGaps }

InitFit ==
  /\ blocked_slots \in SUBSET FitGrid
  /\ recurring_slots \in SUBSET FitGrid
  /\ gaps \in FitGapLists
  /\ arg \in [num_blocks : 1..MaxBlocks]
  /\ ret = <<>>
  /\ today = 4
  /\ life = NoLife
  /\ life_block_cache = NoCache
  /\ pc = "fit_in"
  /\ store = <<>>
  /\ has_key = FALSE
  /\ now = [min |-> 0, sec |-> 0]
  /\ now_rounded = 0
  /\ tasks = <<>>
  /\ bad_tasks = <<>>
  /\ idx = 1
  /\ pass = 1
  /\ updates = <<>>
  /\ placed = <<>>
  /\ outcome = <<>>
  /\ raised = ""
  /\ notifier = NoNotifier

ApplyFit ==
  /\ pc = "fit_in"
  /\ ret' = find_gap_for_task(blocked_slots, recurring_slots, life, gaps, arg.num_blocks)
  /\ life_block_cache' =
       FillCache({ DateOf(t) : t \in GapLookups(blocked_slots, recurring_slots, life,
                                                gaps, arg.num_blocks) })
  /\ pc' = "fit_out"
  /\ UNCHANGED << store, life, has_key, now, today, tasks, blocked_slots,
                  recurring_slots, bad_tasks, idx, gaps, now_rounded, pass, updates,
                  placed, outcome, raised, arg, notifier >>

SpecFit == InitFit /\ [][ApplyFit]_vars

\* ------------------------------------------------------------------------
\* TaskDurationEstimator.estimate as a function of its inputs
\* ------------------------------------------------------------------------
\* titles: no keyword, a medium keyword in capitals, a quick and a long
\* keyword together, a long keyword
EstContents ==
  { <<"a">>, <<"R","e","a","d">>, <<"c","a","l","l"," ","s","t","u","d","y">>,
    <<"e","s","s","a","y">> }

\* descriptions: empty, no marker, markers, two markers, "m" followed by a
\* word character, a marker and a keyword, a marker rounded down, a marker
\* of zero minutes, a marker inside a word before a failed match
EstDescriptions ==
  { <<>>, <<"x">>, <<"5","m">>, <<"1","2","m">>, <<"4","0","m"," ","2","m">>,
    <<"5","m","i","n">>, <<"n","o","t","e"," ","3","3","m",".">>,
    <<"3","7","m">>, <<"0","m">>, <<"x","1","3","m"," ","1","2","m","3">> }

\* first numbers of the AI's answers (NoneVal: the call failed or the
\* answer holds no number)
EstReplies == {NoneVal, 0, 3, 12, 47}

InitEstimate ==
  /\ arg \in [content : EstContents, description : EstDescriptions,
               has_key : BOOLEAN, reply : EstReplies]
  /\ ret = <<>>
  /\ pc = "estimate_in"
  /\ store = <<>>
  /\ life = NoLife
  /\ has_key = FALSE
  /\ now = [min |-> 0, sec |-> 0]
  /\ today = 4
  /\ tasks = <<>>
  /\ blocked_slots = {}
  /\ recurring_slots = {}
  /\ life_block_cache = NoCache
  /\ bad_tasks = <<>>
  /\ idx = 1
  /\ gaps = <<>>
  /\ now_rounded = 0
  /\ pass = 1
  /\ updates = <<>>
  /\ placed = <<>>
  /\ outcome = <<>>
  /\ raised = ""
  /\ notifier = NoNotifier

ApplyEstimate ==
  /\ pc = "estimate_in"
  /\ ret' = estimate(arg.content, arg.description, arg.has_key, arg.reply)
  /\ pc' = "estimate_out"
  /\ UNCHANGED << store, life, has_key, now, today, tasks, blocked_slots,
                  recurring_slots, life_block_cache, bad_tasks, idx, gaps, now_rounded, pass, updates,
                  placed, outcome, raised, arg, notifier >>

SpecEstimate == InitEstimate /\ [][ApplyEstimate]_vars

\* ------------------------------------------------------------------------
\* add_duration_to_description as a function of its inputs, applied once,
\* then once more, or followed by the estimate of the next pass
\* ------------------------------------------------------------------------
\* descriptions: those of the estimate, blanks only, a leading blank, two
\* equal markers, a marker after a failed match
StampDescriptions ==
  EstDescriptions \cup
    { <<" ">>, <<" ","x">>, <<"5","m"," ","5","m">>, <<"1","2","m","3"," ","4","m">> }

\* durations: off the grid, the minimum, estimates of the cascade, hours
StampDurations == {0, 5, 7, 25, 120}

InitStamp ==
  /\ arg \in [description : StampDescriptions, duration : StampDurations,
               reply : EstReplies]
  /\ ret = <<>>
  /\ pc = "stamp_in"
  /\ store = <<>>
  /\ life = NoLife
  /\ has_key = TRUE
  /\ now = [min |-> 0, sec |-> 0]
  /\ today = 4
  /\ tasks = <<>>
  /\ blocked_slots = {}
  /\ recurring_slots = {}
  /\ life_block_cache = NoCache
  /\ bad_tasks = <<>>
  /\ idx = 1
  /\ gaps = <<>>
  /\ now_rounded = 0
  /\ pass = 1
  /\ updates = <<>>
  /\ placed = <<>>
  /\ outcome = <<>>
  /\ raised = ""
  /\ notifier = NoNotifier

\* new_description = add_duration_to_description(current_desc, duration)
ApplyStamp ==
  /\ pc = "stamp_in"
  /\ ret' = << add_duration_to_description(arg.description, arg.duration) >>
  /\ pc' = "stamp_out"
  /\ UNCHANGED << store, life, has_key, now, today, tasks, blocked_slots,
                  recurring_slots, life_block_cache, bad_tasks, idx, gaps, now_rounded, pass, updates,
                  placed, outcome, raised, arg, notifier >>

\* the function applied to its own result with the same duration
ApplyStampAgain ==
  /\ pc = "stamp_out"
  /\ ret' = Append(ret, add_duration_to_description(ret[1], arg.duration))
  /\ pc' = "stamp_twice"
  /\ UNCHANGED << store, life, has_key, now, today, tasks, blocked_slots,
                  recurring_slots, life_block_cache, bad_tasks, idx, gaps, now_rounded, pass, updates,
                  placed, outcome, raised, arg, notifier >>

\* the next pass: current_desc is the stamped description, and the
\* credential is configured
EstimateStamped ==
  /\ pc = "stamp_out"
  /\ ret' = Append(ret, estimate(<<"a">>, ret[1], has_key, arg.reply))
  /\ pc' = "stamp_read"
  /\ UNCHANGED << store, life, has_key, now, today, tasks, blocked_slots,
                  recurring_slots, life_block_cache, bad_tasks, idx, gaps, now_rounded, pass, updates,
                  placed, outcome, raised, arg, notifier >>

NextStamp == ApplyStamp \/ ApplyStampAgain \/ EstimateStamped

SpecStamp == InitStamp /\ [][NextStamp]_vars

\* ------------------------------------------------------------------------
\* TaskNotifier.run(scheduler): the loop that re-invokes TaskScheduler.run.
\* notifier = [at, monotonic, now, next_scheduler_run, in_progress,
\* last_started, passes, active_overlays, overlays, popped]: the position
\* in run(), time.monotonic() in seconds, the locals now and
\* next_scheduler_run, the number of scheduler.run() calls that have been
\* entered and have not returned, the clock at the latest entry, the number
\* of entries, len(self.active_overlays), the number of live _run_overlay
\* threads and how many of them have left their finally block's pop behind.
\* check_and_notify and check_snoozed_tasks are followed one loop turn and
\* one section at a time, the overlay threads going on between them.
\* ------------------------------------------------------------------------
CHECK_INTERVAL_SECONDS == 10

SCHEDULER_INTERVAL_SECONDS == 300

\* the clock is followed up to this reading
MaxMonotonic == 700

\* _run_overlay threads alive at a time, those that have popped their id
\* and not yet ended included
MaxOverlays == 2

\* seconds a blocking call may take: fetch_tasks in check_and_notify,
\* send_notification with is_computer_task, or scheduler.run()
CallSeconds == {0, 5, 320}

InitLoop ==
  /\ notifier = [at |-> "first", monotonic |-> 0, now |-> NoneVal,
                 next_scheduler_run |-> NoneVal, in_progress |-> 0,
                 last_started |-> NoneVal, passes |-> 0, active_overlays |-> 0,
                 overlays |-> 0, popped |-> 0]
  /\ pc = "loop"
  /\ store = <<>>
  /\ life = NoLife
  /\ has_key = FALSE
  /\ now = [min |-> 0, sec |-> 0]
  /\ today = 4
  /\ tasks = <<>>
  /\ blocked_slots = {}
  /\ recurring_slots = {}
  /\ life_block_cache = NoCache
  /\ bad_tasks = <<>>
  /\ idx = 1
  /\ gaps = <<>>
  /\ now_rounded = 0
  /\ pass = 1
  /\ updates = <<>>
  /\ placed = <<>>
  /\ outcome = <<>>
  /\ raised = ""
  /\ arg = <<>>
  /\ ret = <<>>

LoopFrame ==
  UNCHANGED << store, life, has_key, now, today, tasks, blocked_slots,
               recurring_slots, life_block_cache, bad_tasks, idx, gaps, now_rounded, pc, pass,
               updates, placed, outcome, raised, arg, ret >>

\* "if scheduler is not None: try: scheduler.run()": the call is entered
FirstRun ==
  /\ notifier.at = "first"
  /\ notifier' = [notifier EXCEPT !.at = "first_running",
                                   !.in_progress = @ + 1,
                                   !.last_started = notifier.monotonic,
                                   !.passes = @ + 1]
  /\ LoopFrame

\* it returns or raises after d seconds;
\* next_scheduler_run = time.monotonic() + scheduler_interval_seconds
FirstRunReturns ==
  /\ notifier.at = "first_running"
  /\ \E d \in CallSeconds :
       /\ notifier.monotonic + d <= MaxMonotonic
       /\ notifier' = [notifier EXCEPT
                         !.at = "check",
                         !.monotonic = @ + d,
                         !.in_progress = @ - 1,
                         !.next_scheduler_run =
                            notifier.monotonic + d + SCHEDULER_INTERVAL_SECONDS]
  /\ LoopFrame

\* check_and_notify up to "tasks = self.fetch_tasks()": the call to the
\* store takes d seconds; when it raises the for loop has no turn
NotifierFetchTasks ==
  /\ notifier.at = "check"
  /\ \E d \in CallSeconds :
       /\ notifier.monotonic + d <= MaxMonotonic
       /\ notifier' = [notifier EXCEPT !.at = "notify", !.monotonic = @ + d]
  /\ LoopFrame

\* one turn of the for loop of check_and_notify for a task inside the
\* window: send_notification and is_computer_task take d seconds.
\* is_computer_task answers, and the turn ends or goes on to "with
\* self.overlay_lock"; or its save_cache(cache) raises, and the exception
\* leaves check_and_notify and run(), which have no try around the call
CheckAndNotify ==
  /\ notifier.at = "notify"
  /\ \E d \in CallSeconds, computer_task \in {"True", "False", "raises"} :
       /\ notifier.monotonic + d <= MaxMonotonic
       /\ notifier' = [notifier EXCEPT
                         !.at = IF computer_task = "True" THEN "notify_lock"
                                ELSE IF computer_task = "False" THEN "notify"
                                ELSE "raised",
                         !.monotonic = @ + d]
  /\ LoopFrame

\* under overlay_lock: "if len(self.active_overlays) > 0: continue;
\* self.active_overlays[task.id] = True"
CheckAndNotifyLocked ==
  /\ notifier.at = "notify_lock"
  /\ notifier' =
       IF notifier.active_overlays > 0
       THEN [notifier EXCEPT !.at = "notify"]
       ELSE [notifier EXCEPT !.at = "notify_start", !.active_overlays = @ + 1]
  /\ LoopFrame

\* thread.start(), and the turn ends
CheckAndNotifyStarts ==
  /\ notifier.at = "notify_start"
  /\ notifier.overlays < MaxOverlays
  /\ notifier' = [notifier EXCEPT !.at = "notify", !.overlays = @ + 1]
  /\ LoopFrame

\* the for loop is exhausted: check_and_notify returns
CheckAndNotifyReturns ==
  /\ notifier.at = "notify"
  /\ notifier' = [notifier EXCEPT !.at = "snoozed"]
  /\ LoopFrame

\* one turn of the loop of check_snoozed_tasks for an id whose snooze is
\* over, under overlay_lock: "if len(self.active_overlays) > 0: continue;
\* self.active_overlays[task_id] = True"
CheckSnoozedTasks ==
  /\ notifier.at = "snoozed"
  /\ notifier' =
       IF notifier.active_overlays > 0
       THEN notifier
       ELSE [notifier EXCEPT !.at = "snoozed_save", !.active_overlays = @ + 1]
  /\ LoopFrame

\* save_state(state): when it raises, the exception leaves
\* check_snoozed_tasks and run(), which has no try around the call
CheckSnoozedSaves ==
  /\ notifier.at = "snoozed_save"
  /\ \E ok \in BOOLEAN :
       notifier' = [notifier EXCEPT !.at = IF ok THEN "snoozed_start" ELSE "raised"]
  /\ LoopFrame

\* thread.start(), and the turn ends
CheckSnoozedStarts ==
  /\ notifier.at = "snoozed_start"
  /\ notifier.overlays < MaxOverlays
  /\ notifier' = [notifier EXCEPT !.at = "snoozed", !.overlays = @ + 1]
  /\ LoopFrame

\* the loop is exhausted: check_snoozed_tasks returns
CheckSnoozedTasksReturns ==
  /\ notifier.at = "snoozed"
  /\ notifier' = [notifier EXCEPT !.at = "gate"]
  /\ LoopFrame

\* variant: the next run is counted from the previous deadline
NextSchedulerRun_from_deadline(now_, next_scheduler_run, interval) ==
  next_scheduler_run + interval

\* next_scheduler_run = now + scheduler_interval_seconds
NextSchedulerRun(now_, next_scheduler_run, interval) == now_ + interval

\* now = time.monotonic(); if now >= next_scheduler_run: scheduler.run() is
\* entered at that reading (no blocking call lies between the two)
Gate ==
  /\ notifier.at = "gate"
  /\ notifier' =
       IF notifier.monotonic >= notifier.next_scheduler_run
       THEN [notifier EXCEPT !.at = "running",
                             !.now = notifier.monotonic,
                             !.in_progress = @ + 1,
                             !.last_started = notifier.monotonic,
                             !.passes = @ + 1]
       ELSE [notifier EXCEPT !.at = "sleep", !.now = notifier.monotonic]
  /\ LoopFrame

\* scheduler.run() returns or raises after d seconds;
\* next_scheduler_run = now + scheduler_interval_seconds
RunReturns ==
  /\ notifier.at = "running"
  /\ \E d \in CallSeconds :
       /\ notifier.monotonic + d <= MaxMonotonic
       /\ notifier' = [notifier EXCEPT
                         !.at = "sleep",
                         !.monotonic = @ + d,
                         !.in_progress = @ - 1,
                         !.next_scheduler_run =
                            NextSchedulerRun(notifier.now, notifier.next_scheduler_run,
                                             SCHEDULER_INTERVAL_SECONDS)]
  /\ LoopFrame

\* time.sleep(CHECK_INTERVAL_SECONDS)
Sleep ==
  /\ notifier.at = "sleep"
  /\ notifier.monotonic + CHECK_INTERVAL_SECONDS <= MaxMonotonic
  /\ notifier' = [notifier EXCEPT !.at = "check",
                                   !.monotonic = @ + CHECK_INTERVAL_SECONDS]
  /\ LoopFrame

\* _run_overlay: show_task_overlay returns or raises at any moment, and the
\* finally block pops the id under overlay_lock
OverlayPops ==
  /\ notifier.overlays - notifier.popped > 0
  /\ notifier' = [notifier EXCEPT !.active_overlays = @ - 1, !.popped = @ + 1]
  /\ LoopFrame

\* the thread ends
OverlayExits ==
  /\ notifier.popped > 0
  /\ notifier' = [notifier EXCEPT !.overlays = @ - 1, !.popped = @ - 1]
  /\ LoopFrame

NextLoop ==
  \/ FirstRun
  \/ FirstRunReturns
  \/ NotifierFetchTasks
  \/ CheckAndNotify
  \/ CheckAndNotifyLocked
  \/ CheckAndNotifyStarts
  \/ CheckAndNotifyReturns
  \/ CheckSnoozedTasks
  \/ CheckSnoozedSaves
  \/ CheckSnoozedStarts
  \/ CheckSnoozedTasksReturns
  \/ Gate
  \/ RunReturns
  \/ Sleep
  \/ OverlayPops
  \/ OverlayExits

SpecLoop == InitLoop /\ [][NextLoop]_vars

\* ------------------------------------------------------------------------
\* find_available_slot, one loop turn at a time
\* ------------------------------------------------------------------------
\* 142 blocks fit in no day; 141 blocks fit only at 09:00 of a weekend day
LongestDayBlocks == (SLEEP_TIME - 60 * WEEKEND_START_HOUR) \div INTERVAL_MINUTES

\* 12:00 of every weekend day from day 6 to day 34: with them occupied, the
\* first start of 141 free blocks after Saturday (day 5) 09:00 is 09:00 of
\* day 40
WeekendNoons == { At(d, 12, 0) : d \in {6, 12, 13, 19, 20, 26, 27, 33, 34} }

\* the Saturday morning block of the Envs
SaturdayLife ==
  [one_off |-> <<>>,
   weekly |-> << [days |-> << <<"S","a","t"," ">>, <<"s","u","n">> >>,
                  start |-> 10 * 60, end |-> 10 * 60 + 10] >>]

ScanCall(blocked, recurring, life_, start_time, num_blocks) ==
  [blocked |-> blocked, recurring |-> recurring, life |-> life_,
   start_time |-> start_time, num_blocks |-> num_blocks]

\* the calls: a free start; an occupied start; a range that crosses the
\* sleep boundary (next: Saturday); a recurring slot and a life block in the
\* way; no day long enough; the first free start 10000 and 9999 intervals
\* after the start
ScanCalls ==
  { ScanCall({}, {}, NoLife, At(4, 20, 35), 1),
    ScanCall({At(4, 20, 35)}, {}, NoLife, At(4, 20, 35), 1),
    ScanCall({}, {}, NoLife, At(4, 20, 35), 3),
    ScanCall({At(5, 9, 50)}, {At(5, 9, 40)}, SaturdayLife, At(5, 9, 35), 2),
    ScanCall({}, {}, NoLife, At(4, 20, 35), LongestDayBlocks + 1),
    ScanCall(WeekendNoons, {}, NoLife, At(40, 9, 0) - INTERVAL_MINUTES * SEARCH_LIMIT,
             LongestDayBlocks),
    ScanCall(WeekendNoons, {}, NoLife,
             At(40, 9, 0) - INTERVAL_MINUTES * (SEARCH_LIMIT - 1), LongestDayBlocks) }

\* time = start_time; no loop turn begun
InitScan ==
  /\ arg \in ScanCalls
  /\ ret = [time |-> arg.start_time, turns |-> 0, value |-> NoneVal]
  /\ pc = "scan"
  /\ blocked_slots = arg.blocked
  /\ recurring_slots = arg.recurring
  /\ life_block_cache = NoCache
  /\ life = arg.life
  /\ today = 4
  /\ store = <<>>
  /\ has_key = FALSE
  /\ now = [min |-> 0, sec |-> 0]
  /\ tasks = <<>>
  /\ bad_tasks = <<>>
  /\ idx = 1
  /\ gaps = <<>>
  /\ now_rounded = arg.start_time
  /\ pass = 1
  /\ updates = <<>>
  /\ placed = <<>>
  /\ outcome = <<>>
  /\ raised = ""
  /\ notifier = NoNotifier

\* variant: the scan advances by an hour
NextCandidate_hour(time) == time + 60

\* time += dt.timedelta(minutes=INTERVAL_MINUTES)
NextCandidate(time) == time + INTERVAL_MINUTES

\* one turn of "for _ in range(10000)"
ScanTurn ==
  /\ pc = "scan"
  /\ ret.turns < SEARCH_LIMIT
  /\ IF is_slot_available(blocked_slots, recurring_slots, life, ret.time, arg.num_blocks)
     THEN /\ ret' = [ret EXCEPT !.turns = @ + 1, !.value = ret.time]
          /\ pc' = "scan_out"
          /\ raised' = raised
     ELSE /\ ret' = [ret EXCEPT !.turns = @ + 1, !.time = NextCandidate(@)]
          /\ pc' = pc
          /\ raised' = raised
  /\ life_block_cache' =
       FillCache({ DateOf(t) : t \in ScanLookups(blocked_slots, recurring_slots, life,
                                                 ret.time, arg.num_blocks, 0) })
  /\ UNCHANGED << store, life, has_key, now, today, tasks, blocked_slots,
                  recurring_slots, bad_tasks, idx, gaps, now_rounded, pass, updates,
                  placed, outcome, arg, notifier >>

\* the range is exhausted: raise RuntimeError
ScanRaises ==
  /\ pc = "scan"
  /\ ret.turns = SEARCH_LIMIT
  /\ pc' = "scan_raised"
  /\ raised' = "RuntimeError"
  /\ UNCHANGED << store, life, has_key, now, today, tasks, blocked_slots,
                  recurring_slots, life_block_cache, bad_tasks, idx, gaps, now_rounded, pass, updates,
                  placed, outcome, arg, ret, notifier >>

NextScan == ScanTurn \/ ScanRaises

SpecScan == InitScan /\ [][NextScan]_vars

\* ------------------------------------------------------------------------
\* The passes over a store that holds a task due today inside a life block
\* ------------------------------------------------------------------------
\* the other tasks come from these of the pool: a candidate, an overdue
\* timed task, an overdue recurring task, a date-only task due today
LifeCompanions == {1, 4, 6, 9}

\* the environments whose life-block file has a block for their day
LifeEnvs == { env \in Envs :
                blocked_slots_for_date(env.life, env.today, INTERVAL_MINUTES) # {} }

\* a task with a marker, due at the first slot of today's life blocks, and
\* one due a slot earlier whose second block is that slot; both lie inside
\* the working hours of their day
LifeTasks(env) ==
  LET first == SetMin(blocked_slots_for_date(env.life, env.today, INTERVAL_MINUTES))
  IN  { Task(20, <<"p">>, <<"5","m">>, TimedDue(first), 2),
        Task(21, <<"q">>, <<"1","0","m">>, TimedDue(first - INTERVAL_MINUTES), 2) }

InitLife ==
  \E env \in LifeEnvs :
    \E S \in { X \in SUBSET LifeCompanions : Cardinality(X) <= MaxCompanions } :
      /\ \E held \in LifeTasks(env) :
           store = Pick(TaskPool(env.today), S) \o << held >>
      /\ life = env.life
      /\ has_key = env.has_key
      /\ now = env.now
      /\ today = env.today
      /\ tasks = <<>>
      /\ blocked_slots = {}
      /\ recurring_slots = {}
      /\ life_block_cache = NoCache
      /\ bad_tasks = <<>>
      /\ idx = 1
      /\ gaps = <<>>
      /\ now_rounded = 0
      /\ pc = "fetch"
      /\ pass = 1
      /\ updates = <<>>
      /\ placed = <<>>
      /\ outcome = <<>>
      /\ raised = ""
      /\ notifier = NoNotifier
      /\ arg = <<>>
      /\ ret = <<>>

SpecLife == InitLife /\ [][Next]_vars

\* ------------------------------------------------------------------------
\* blocked_slots_for_date as a function of the file and the date
\* ------------------------------------------------------------------------
\* texts of start and end: on the grid, off the grid, with white space and
\* single digits, hour 24, no text, no colon
BlockTimes ==
  { <<"1","6",":","0","0">>, <<"1","6",":","1","0">>, <<"1","6",":","1","2">>,
    <<" ","9",":","5"," ">>, <<"2","4",":","0","0">>, <<>>, <<"1","6","0","0">> }

\* day lists: none, the slug, a full name and an empty entry, capitals with
\* white space, two letters only, white space only
BlockDayLists ==
  { <<>>, << <<"f","r","i">> >>, << <<"F","r","i","d","a","y">>, <<>> >>,
    << <<"S","a","t"," ">>, <<"s","u","n">> >>, << <<"f","r">> >>, << <<" ">> >> }

\* dates of one-off blocks (NoneVal: a text date.fromisoformat rejects)
BlockDates == {4, 5, NoneVal}

OneOffBlocks == [date : BlockDates, start : BlockTimes, end : BlockTimes]

WeeklyBlocks == [days : BlockDayLists, start : BlockTimes, end : BlockTimes]

\* the files: one block, or a one-off and a weekly block that overlap
BlockFiles ==
  { [one_off |-> <<b>>, weekly |-> <<>>] : b \in OneOffBlocks }
    \cup { [one_off |-> <<>>, weekly |-> <<b>>] : b \in WeeklyBlocks }
    \cup { [one_off |-> << [date |-> 4, start |-> <<"1","6",":","0","0">>,
                            end |-> <<"1","6",":","1","2">>] >>,
            weekly |-> << [days |-> days, start |-> <<" ","9",":","5"," ">>,
                           end |-> <<"1","6",":","1","0">>] >>] :
             days \in BlockDayLists }

InitBlocks ==
  /\ arg \in [file : BlockFiles, date : {4, 5}]
  /\ ret = <<>>
  /\ pc = "blocks_in"
  /\ store = <<>>
  /\ life = NoLife
  /\ has_key = FALSE
  /\ now = [min |-> 0, sec |-> 0]
  /\ today = 4
  /\ tasks = <<>>
  /\ blocked_slots = {}
  /\ recurring_slots = {}
  /\ life_block_cache = NoCache
  /\ bad_tasks = <<>>
  /\ idx = 1
  /\ gaps = <<>>
  /\ now_rounded = 0
  /\ pass = 1
  /\ updates = <<>>
  /\ placed = <<>>
  /\ outcome = <<>>
  /\ raised = ""
  /\ notifier = NoNotifier

\* state = load_blocks(); the slots of the date
ApplyBlocks ==
  /\ pc = "blocks_in"
  /\ life' = parsed_blocks(arg.file)
  /\ ret' = blocked_slots_for_date(parsed_blocks(arg.file), arg.date, INTERVAL_MINUTES)
  /\ pc' = "blocks_out"
  /\ UNCHANGED << store, has_key, now, today, tasks, blocked_slots,
                  recurring_slots, life_block_cache, bad_tasks, idx, gaps, now_rounded, pass, updates,
                  placed, outcome, raised, arg, notifier >>

SpecBlocks == InitBlocks /\ [][ApplyBlocks]_vars

\* ------------------------------------------------------------------------
\* The life-block file as LifeBlocksWindow writes it (ui/blocks.py), and the
\* passes of a scheduler that reads it while the window, a process of its
\* own, is open.  arg = [state, at] is the window: its self.state and
\* whether a handler is writing the file; life is the file as load_blocks
\* reads it.
\* ------------------------------------------------------------------------
\* number of blocks the window's list is let grow to
MaxLifeBlocks == 2

\* "%02d"
Pad2(n) == IF n < 10 THEN <<"0">> \o IntToStr(n) ELSE IntToStr(n)

\* time.strftime("%H:%M")
strftime_HM(t) == Pad2(t \div 60) \o <<":">> \o Pad2(t % 60)

\* the block the window appends for a form, as the scheduler reads it back
\* from the file
SavedBlock(form, start, end) ==
  IF form.kind = "one_off"
  THEN parsed_block([date |-> form.date, start |-> strftime_HM(start),
                     end |-> strftime_HM(end)])
  ELSE parsed_block([days |-> form.days, start |-> strftime_HM(start),
                     end |-> strftime_HM(end)])

\* variant: the minutes are not tested against the interval
add_block_unaligned(state, form) ==
  LET start == parse_time(form.start)
      end == parse_time(form.end)
  IN  IF start = NoneVal \/ end = NoneVal THEN state
      ELSE IF end <= start THEN state
      ELSE IF form.kind = "one_off"
      THEN IF form.date = NoneVal THEN state
           ELSE [state EXCEPT !.one_off = Append(@, SavedBlock(form, start, end))]
      ELSE IF form.days = <<>> THEN state
           ELSE [state EXCEPT !.weekly = Append(@, SavedBlock(form, start, end))]

\* LifeBlocksWindow._add_block: the state after the form is submitted (the
\* same state when the form is refused with a status message)
add_block(state, form) ==
  LET start == parse_time(form.start)
      end == parse_time(form.end)
  IN  IF start = NoneVal \/ end = NoneVal THEN state
      ELSE IF end <= start THEN state
      ELSE IF MinuteOf(start) % INTERVAL_MINUTES # 0
              \/ MinuteOf(end) % INTERVAL_MINUTES # 0 THEN state
      ELSE IF form.kind = "one_off"
      THEN IF form.date = NoneVal THEN state
           ELSE [state EXCEPT !.one_off = Append(@, SavedBlock(form, start, end))]
      ELSE IF form.days = <<>> THEN state
           ELSE [state EXCEPT !.weekly = Append(@, SavedBlock(form, start, end))]

\* what is typed into the start and end fields: times on and off the grid
\* around the search start of the Friday 14:10 environment, single digits,
\* no time
FormTimes ==
  { <<"9",":","5">>, <<"1","5",":","2","0">>, <<"1","5",":","1","2">>, <<"x">> }

\* the ticked weekdays, in the order of day_vars
FormDays ==
  { <<>>, << <<"s","a","t">>, <<"s","u","n">> >> }

\* the forms submitted on day d
Forms(d) ==
  [kind : {"one_off"}, date : {d, NoneVal}, days : {<<>>},
   start : FormTimes, end : FormTimes]
    \cup [kind : {"weekly"}, date : {NoneVal}, days : FormDays,
          start : FormTimes, end : FormTimes]

\* the other tasks come from these of the pool
AlignCompanions == {2, 9}

\* the passes are those of the two Friday environments: in the early one
\* the searches stay on Friday, in the late one they go on to Saturday
AlignEnvs == { env \in Envs : env.today = 4 }

InitAlign ==
  \E env \in AlignEnvs :
    \E S \in { X \in SUBSET AlignCompanions : Cardinality(X) <= MaxCompanions } :
      /\ store = Pick(TaskPool(env.today), S)
      /\ life = NoLife
      /\ has_key = env.has_key
      /\ now = env.now
      /\ today = env.today
      /\ tasks = <<>>
      /\ blocked_slots = {}
      /\ recurring_slots = {}
      /\ life_block_cache = NoCache
      /\ bad_tasks = <<>>
      /\ idx = 1
      /\ gaps = <<>>
      /\ now_rounded = 0
      /\ pc = "fetch"
      /\ pass = 1
      /\ updates = <<>>
      /\ placed = <<>>
      /\ outcome = <<>>
      /\ raised = ""
      /\ notifier = NoNotifier
      /\ arg = [state |-> NoLife, at |-> "idle"]
      /\ ret = <<>>

\* LifeBlocksWindow._delete_selected: the state after "self.state[kind]
\* .pop(idx)" for the selected entry
delete_selected(state, kind, index) ==
  LET without(blocks) == [i \in 1..(Len(blocks) - 1) |->
                            IF i < index THEN blocks[i] ELSE blocks[i + 1]]
  IN  IF kind = "one_off" THEN [state EXCEPT !.one_off = without(@)]
      ELSE [state EXCEPT !.weekly = without(@)]

\* a form is submitted in the window.  A refused form leaves a status
\* message and nothing else; an accepted one is appended and save_blocks
\* opens the file for writing, which empties it: until the text is
\* written load_blocks finds no JSON and returns its default state.
AddBlock ==
  /\ arg.at = "idle"
  /\ Len(arg.state.one_off) + Len(arg.state.weekly) < MaxLifeBlocks
  /\ \E form \in Forms(today) :
       /\ add_block(arg.state, form) # arg.state
       /\ arg' = [state |-> add_block(arg.state, form), at |-> "write_text"]
  /\ life' = NoLife
  /\ UNCHANGED << store, has_key, now, today, tasks, blocked_slots,
                  recurring_slots, life_block_cache, bad_tasks, idx, gaps,
                  now_rounded, pc, pass, updates, placed, outcome, raised, ret,
                  notifier >>

\* an entry of the list is selected and deleted; save_blocks as above
DeleteSelected ==
  /\ arg.at = "idle"
  /\ \E kind \in {"one_off", "weekly"} :
     \E i \in 1..Len(IF kind = "one_off" THEN arg.state.one_off
                     ELSE arg.state.weekly) :
       arg' = [state |-> delete_selected(arg.state, kind, i), at |-> "write_text"]
  /\ life' = NoLife
  /\ UNCHANGED << store, has_key, now, today, tasks, blocked_slots,
                  recurring_slots, life_block_cache, bad_tasks, idx, gaps,
                  now_rounded, pc, pass, updates, placed, outcome, raised, ret,
                  notifier >>

\* save_blocks: "p.write_text(json.dumps(state, indent=2))" has written
\* the text
SaveBlocks ==
  /\ arg.at = "write_text"
  /\ life' = arg.state
  /\ arg' = [arg EXCEPT !.at = "idle"]
  /\ UNCHANGED << store, has_key, now, today, tasks, blocked_slots,
                  recurring_slots, life_block_cache, bad_tasks, idx, gaps,
                  now_rounded, pc, pass, updates, placed, outcome, raised, ret,
                  notifier >>

\* one loop turn of schedule_non_recurring_tasks up to its next call of
\* get_life_blocks_for_date for a date without an entry: the file is read
\* as it is now.  The searches go through the instants in ascending
\* order, so the date is the earliest of those the turn has still to ask
\* for.  The reply of estimate_with_ai, if the turn has asked for one, is
\* kept in ret for the rest of the turn.
GetLifeBlocksForDate ==
  /\ pc = "place"
  /\ idx <= Len(bad_tasks)
  /\ LET task == bad_tasks[idx]
         current_desc == task.description
         ai_called == has_key /\ parse_duration_from_description(current_desc) = NoneVal
     IN  \E reply \in TurnReplies(ai_called) :
           LET num_blocks ==
                 num_blocks_of(estimate(task.content, current_desc, has_key, reply)[1])
               time_slot == FindSlot(task, num_blocks, blocked_slots, recurring_slots,
                                     life, gaps, now_rounded, today)
               missing == TurnLookups(task, num_blocks, blocked_slots,
                                      recurring_slots, life, gaps, now_rounded,
                                      time_slot) \ DOMAIN life_block_cache
           IN  /\ ~SkipsDateOnly(task, today)
               /\ missing # {}
               /\ life_block_cache' = FillCache({SetMin(missing)})
               /\ ret' = IF ai_called THEN <<reply>> ELSE ret
  /\ UNCHANGED << store, life, has_key, now, today, tasks, blocked_slots,
                  recurring_slots, bad_tasks, idx, gaps, now_rounded, pc, pass,
                  updates, placed, outcome, raised, arg, notifier >>

NextAlign ==
  \/ AddBlock
  \/ DeleteSelected
  \/ SaveBlocks
  \/ GetLifeBlocksForDate
  \/ Next

SpecAlign == InitAlign /\ [][NextAlign]_vars

\* ------------------------------------------------------------------------
\* The passes over a store that holds a date-only task due today, or a
\* task whose due has a time of day in a Due object without datetime
\* ------------------------------------------------------------------------
\* the other tasks come from these of the pool: a candidate of higher
\* priority, a timed task due today whose range crosses the sleep boundary,
\* an overdue timed task, an overdue recurring task
DateOnlyCompanions == {1, 2, 4, 6}

\* date-only tasks of day d with a marker of 10 and of 20 minutes; a task
\* due on day d at 20:30 and an overdue task without a marker, both with a
\* time of day and no datetime attribute
DateOnlyTasks(d) ==
  { Task(22, <<"r">>, <<"1","0","m">>, DateDue(d), 3),
    Task(23, <<"s">>, <<"2","0","m">>, DateDue(d), 2),
    Task(24, <<"t">>, <<"2","0","m">>, BareTimedDue(At(d, 20, 30)), 2),
    Task(25, <<"r","e","a","d">>, <<>>, BareTimedDue(At(d - 1, 16, 0)), 2) }

InitDateOnly ==
  \E env \in Envs :
    \E S \in { X \in SUBSET DateOnlyCompanions : Cardinality(X) <= MaxCompanions } :
      /\ \E dated \in DateOnlyTasks(env.today) :
           store = Pick(TaskPool(env.today), S) \o << dated >>
      /\ life = env.life
      /\ has_key = env.has_key
      /\ now = env.now
      /\ today = env.today
      /\ tasks = <<>>
      /\ blocked_slots = {}
      /\ recurring_slots = {}
      /\ life_block_cache = NoCache
      /\ bad_tasks = <<>>
      /\ idx = 1
      /\ gaps = <<>>
      /\ now_rounded = 0
      /\ pc = "fetch"
      /\ pass = 1
      /\ updates = <<>>
      /\ placed = <<>>
      /\ outcome = <<>>
      /\ raised = ""
      /\ notifier = NoNotifier
      /\ arg = <<>>
      /\ ret = <<>>

SpecDateOnly == InitDateOnly /\ [][Next]_vars

\* ------------------------------------------------------------------------
\* TaskDurationEstimator.estimate_heuristic as a function of its inputs
\* ------------------------------------------------------------------------
\* titles and descriptions: empty, no keyword, a quick keyword in capitals,
\* a medium keyword in capitals, a long keyword, quick and long, medium and
\* long, quick and medium, a medium keyword inside a word, the beginning
\* of a keyword, the end of a keyword
HeuristicTexts ==
  { <<>>, <<"a">>, <<"C","a","l","l">>, <<"R","E","A","D"," ","b">>,
    <<"e","s","s","a","y">>, <<"c","a","l","l"," ","s","t","u","d","y">>,
    <<"w","a","t","c","h"," ","p","r","o","j","e","c","t">>,
    <<"n","o","t","e"," ","m","a","k","e">>,
    <<"a","l","r","e","a","d","y">>, <<"r","e","a">>, <<"d">> }

InitHeuristic ==
  /\ arg \in [content : HeuristicTexts, description : HeuristicTexts]
  /\ ret = <<>>
  /\ pc = "heuristic_in"
  /\ store = <<>>
  /\ life = NoLife
  /\ has_key = FALSE
  /\ now = [min |-> 0, sec |-> 0]
  /\ today = 4
  /\ tasks = <<>>
  /\ blocked_slots = {}
  /\ recurring_slots = {}
  /\ life_block_cache = NoCache
  /\ bad_tasks = <<>>
  /\ idx = 1
  /\ gaps = <<>>
  /\ now_rounded = 0
  /\ pass = 1
  /\ updates = <<>>
  /\ placed = <<>>
  /\ outcome = <<>>
  /\ raised = ""
  /\ notifier = NoNotifier

ApplyHeuristic ==
  /\ pc = "heuristic_in"
  /\ ret' = estimate_heuristic(arg.content, arg.description)
  /\ pc' = "heuristic_out"
  /\ UNCHANGED << store, life, has_key, now, today, tasks, blocked_slots,
                  recurring_slots, life_block_cache, bad_tasks, idx, gaps, now_rounded, pass, updates,
                  placed, outcome, raised, arg, notifier >>

SpecHeuristic == InitHeuristic /\ [][ApplyHeuristic]_vars

\* ------------------------------------------------------------------------
\* TaskNotifier: the overlay threads next to check_and_notify and
\* check_snoozed_tasks.
\* notifier = [at, todo, task_id, active_overlays, threads, state, file,
\* torn]: the position of the loop thread, the ids its current for loop has
\* still to reach, the id it has just inserted, the dict active_overlays,
\* the live _run_overlay threads in the order they were started, the ids
\* marked snoozed in the state load_state() returned and in the state
\* file, and whether the file has been emptied by an opening for writing
\* and not been written since.  A
\* thread is [task_id, at, op, raised]; op is the handler of the overlay
\* process that is writing the state file.
\* ------------------------------------------------------------------------
OverlayIds == {"t1", "t2", "t3"}

\* variant: only the test "task_id in self.active_overlays" is made
overlay_lock_admits_other(active_overlays, task_id) ==
  task_id \notin active_overlays

\* under overlay_lock: "if task_id in self.active_overlays: continue;
\* if len(self.active_overlays) > 0: continue"
overlay_lock_admits(active_overlays, task_id) ==
  /\ task_id \notin active_overlays
  /\ ~ (Cardinality(active_overlays) > 0)

\* the handlers of the overlay window that end in save_state(state)
OverlayWrites ==
  {"save_current_state", "stop_drag", "_do_snooze", "on_done", "on_cancel"}

\* the snoozed ids of the state a handler saves, loaded being those of the
\* state it loaded: _do_snooze writes the entry of its task with "snoozed":
\* True, save_current_state writes it without the key, on_done and
\* on_cancel delete it, stop_drag leaves active_tasks alone
overlay_saves(op, loaded, task_id) ==
  IF op = "_do_snooze" THEN loaded \cup {task_id}
  ELSE IF op = "stop_drag" THEN loaded
  ELSE loaded \ {task_id}

\* _do_snooze, on_done and on_cancel destroy the window, which ends the
\* overlay process
overlay_exits(op) == op \in {"_do_snooze", "on_done", "on_cancel"}

\* load_state: a file that cannot be parsed gives the default state
load_state(file, torn) == IF torn THEN {} ELSE file

\* a _run_overlay thread that has just been started
OverlayThread(task_id) ==
  [task_id |-> task_id, at |-> "show_task_overlay", op |-> "", raised |-> FALSE]

InitOverlay ==
  /\ \E due \in SUBSET OverlayIds, snoozed \in SUBSET OverlayIds :
       notifier = [at |-> "check_and_notify", todo |-> due, task_id |-> "",
                   active_overlays |-> {}, threads |-> <<>>, state |-> {},
                   file |-> snoozed, torn |-> FALSE]
  /\ pc = "overlay"
  /\ store = <<>>
  /\ life = NoLife
  /\ has_key = FALSE
  /\ now = [min |-> 0, sec |-> 0]
  /\ today = 4
  /\ tasks = <<>>
  /\ blocked_slots = {}
  /\ recurring_slots = {}
  /\ life_block_cache = NoCache
  /\ bad_tasks = <<>>
  /\ idx = 1
  /\ gaps = <<>>
  /\ now_rounded = 0
  /\ pass = 1
  /\ updates = <<>>
  /\ placed = <<>>
  /\ outcome = <<>>
  /\ raised = ""
  /\ arg = <<>>
  /\ ret = <<>>

\* check_and_notify, one turn of "for task in tasks" that reaches
\* is_computer_task.  With a true answer: the tests and the insertion
\* under overlay_lock.  When its save_cache(cache) raises, the exception
\* leaves check_and_notify and run() before the lock is taken
NotifyTurn ==
  /\ notifier.at = "check_and_notify"
  /\ \E id \in notifier.todo, computer_task \in {"True", "raises"} :
       notifier' =
         IF computer_task = "raises"
         THEN [notifier EXCEPT !.at = "raised"]
         ELSE IF overlay_lock_admits(notifier.active_overlays, id)
         THEN [notifier EXCEPT !.todo = @ \ {id},
                               !.active_overlays = @ \cup {id},
                               !.task_id = id,
                               !.at = "notify_start"]
         ELSE [notifier EXCEPT !.todo = @ \ {id}]
  /\ LoopFrame

\* "thread = threading.Thread(target=self._run_overlay, ...);
\* thread.start()"
NotifyStart ==
  /\ notifier.at = "notify_start"
  /\ Len(notifier.threads) < MaxOverlays
  /\ notifier' = [notifier EXCEPT
                    !.threads = Append(@, OverlayThread(notifier.task_id)),
                    !.at = "check_and_notify"]
  /\ LoopFrame

\* the for loop of check_and_notify is over; check_snoozed_tasks:
\* "state = load_state()", and its loop is to reach the ids marked snoozed
NotifyReturns ==
  /\ notifier.at = "check_and_notify"
  /\ notifier.todo = {}
  /\ LET loaded == load_state(notifier.file, notifier.torn)
     IN  notifier' = [notifier EXCEPT !.at = "check_snoozed_tasks",
                                      !.state = loaded,
                                      !.todo = loaded]
  /\ LoopFrame

\* check_snoozed_tasks, one turn on a snoozed id: still snoozing, or the
\* tests and the insertion under overlay_lock
SnoozedTurn ==
  /\ notifier.at = "check_snoozed_tasks"
  /\ \E id \in notifier.todo, still_snoozing \in BOOLEAN :
       notifier' =
         IF ~ still_snoozing /\ overlay_lock_admits(notifier.active_overlays, id)
         THEN [notifier EXCEPT !.todo = @ \ {id},
                               !.active_overlays = @ \cup {id},
                               !.task_id = id,
                               !.at = "save_state"]
         ELSE [notifier EXCEPT !.todo = @ \ {id}]
  /\ LoopFrame

\* "task_data["snoozed"] = False; save_state(state)": "p.write_text(...)"
\* opens the file, which empties it, and writes the loaded state without
\* the flag of this id.  It returns; or state_file() or the opening raises
\* and the file is as it was; or the writing raises and the file stays
\* emptied, which load_state cannot parse.  An exception leaves
\* check_snoozed_tasks and run() with the id still in active_overlays and
\* no thread started
SnoozedSave ==
  /\ notifier.at = "save_state"
  /\ \E how \in {"written", "open_raises", "write_raises"} :
       notifier' =
         IF how = "written"
         THEN [notifier EXCEPT !.state = @ \ {notifier.task_id},
                               !.file = notifier.state \ {notifier.task_id},
                               !.torn = FALSE,
                               !.at = "snoozed_start"]
         ELSE IF how = "write_raises"
         THEN [notifier EXCEPT !.state = @ \ {notifier.task_id},
                               !.file = {},
                               !.torn = TRUE,
                               !.at = "raised"]
         ELSE [notifier EXCEPT !.state = @ \ {notifier.task_id},
                               !.at = "raised"]
  /\ LoopFrame

SnoozedStart ==
  /\ notifier.at = "snoozed_start"
  /\ Len(notifier.threads) < MaxOverlays
  /\ notifier' = [notifier EXCEPT
                    !.threads = Append(@, OverlayThread(notifier.task_id)),
                    !.at = "check_snoozed_tasks"]
  /\ LoopFrame

\* the for loop of check_snoozed_tasks is over
SnoozedReturns ==
  /\ notifier.at = "check_snoozed_tasks"
  /\ notifier.todo = {}
  /\ notifier' = [notifier EXCEPT !.at = "sleep"]
  /\ LoopFrame

\* time.sleep, then the next check_and_notify with the tasks then due
SleepReturns ==
  /\ notifier.at = "sleep"
  /\ \E due \in SUBSET OverlayIds :
       notifier' = [notifier EXCEPT !.at = "check_and_notify", !.todo = due]
  /\ LoopFrame

\* the overlay process, a handler that saves the state: "state =
\* load_state()", the change to active_tasks, and save_state up to the
\* opening of the file, which empties it
OverlaySaves ==
  /\ \E i \in 1..Len(notifier.threads), op \in OverlayWrites :
       /\ notifier.threads[i].at = "show_task_overlay"
       /\ notifier' = [notifier EXCEPT !.threads[i].at = "write_text",
                                        !.threads[i].op = op,
                                        !.torn = TRUE]
  /\ LoopFrame

\* save_state from there on: the text is written; the window is
\* destroyed after _do_snooze, on_done and on_cancel, the process ends and
\* show_task_overlay returns.  When the writing raises, the file stays
\* emptied, the exception ends the handler before root.destroy() and the
\* window stays
OverlayWritten ==
  /\ \E i \in 1..Len(notifier.threads), written \in BOOLEAN :
       /\ notifier.threads[i].at = "write_text"
       /\ notifier' =
            IF written
            THEN [notifier EXCEPT
                    !.file = overlay_saves(notifier.threads[i].op, @,
                                           notifier.threads[i].task_id),
                    !.torn = FALSE,
                    !.threads[i].at = IF overlay_exits(notifier.threads[i].op)
                                      THEN "finally" ELSE "show_task_overlay",
                    !.threads[i].op = ""]
            ELSE [notifier EXCEPT
                    !.file = {},
                    !.torn = TRUE,
                    !.threads[i].at = "show_task_overlay",
                    !.threads[i].op = ""]
  /\ LoopFrame

\* _run_overlay, the try block: the overlay process ends without one of
\* these handlers and show_task_overlay returns, or it raises
OverlayCloses ==
  /\ \E i \in 1..Len(notifier.threads), how \in {"returns", "raises"} :
       /\ notifier.threads[i].at = "show_task_overlay"
       /\ notifier' = [notifier EXCEPT !.threads[i].at = "finally",
                                        !.threads[i].raised = (how = "raises")]
  /\ LoopFrame

\* _run_overlay, the finally block: "with self.overlay_lock:
\* self.active_overlays.pop(task_id, None)"
RunOverlayFinally ==
  /\ \E i \in 1..Len(notifier.threads) :
       /\ notifier.threads[i].at = "finally"
       /\ notifier' =
            [notifier EXCEPT
               !.active_overlays = @ \ {notifier.threads[i].task_id},
               !.threads[i].at = "popped"]
  /\ LoopFrame

\* _run_overlay returns, or the exception of the overlay call leaves it:
\* the thread ends
RunOverlayEnds ==
  /\ \E i \in 1..Len(notifier.threads) :
       /\ notifier.threads[i].at = "popped"
       /\ notifier' =
            [notifier EXCEPT
               !.threads = [j \in 1..(Len(@) - 1) |->
                              IF j < i THEN @[j] ELSE @[j + 1]]]
  /\ LoopFrame

NextOverlay ==
  \/ NotifyTurn
  \/ NotifyStart
  \/ NotifyReturns
  \/ SnoozedTurn
  \/ SnoozedSave
  \/ SnoozedStart
  \/ SnoozedReturns
  \/ SleepReturns
  \/ OverlaySaves
  \/ OverlayWritten
  \/ OverlayCloses
  \/ RunOverlayFinally
  \/ RunOverlayEnds

SpecOverlay == InitOverlay /\ [][NextOverlay]_vars

\* ------------------------------------------------------------------------
\* TaskNotifier.check_and_notify: the notification window and the cooldown.
\* Wall-clock instants are seconds since 00:00:00 of day 0.
\* notifier = [at, clock, now, today, last_notification_time, tasks,
\* fetched, todo, sent]: the position of the loop thread, the wall clock,
\* the "now" the latest call read at its start, self.today, the dict of
\* the latest notification per task id (NoneVal: no entry), what the store
\* holds per task id (its due instant, NoneVal for no due, and whether it
\* is completed), the answer fetch_tasks gave the call and the ids its for
\* loop has still to reach, and every send_notification call made so far
\* with the "now" and self.today of its call and the wall clock at which
\* it was made.  The store changes while the call waits in fetch_tasks
\* and in send_notification.
\* ------------------------------------------------------------------------
NOTIFICATION_WINDOW_MINUTES == 2

NOTIFICATION_COOLDOWN_MINUTES == 5

DaySeconds == 86400

Clock(day, hour, minute, second) ==
  ((day * 24 + hour) * 60 + minute) * 60 + second

\* datetime.date() and datetime.time() of an instant
DateOfClock(t) == t \div DaySeconds

TimeOfClock(t) == t % DaySeconds

\* the wall clock when the notifier is constructed
WallStart == Clock(0, 23, 48, 0)

\* seconds of wall clock that are followed
MaxWallSeconds == 900

\* seconds from the return of one check_and_notify call to the "now" of
\* the next
NotifySeconds == {120, 180}

\* no answer of fetch_tasks is held outside a call
NoFetched == <<>>

NotifyIds == {"t1", "t2"}

\* due instants a task is given: three of day 0 (two of them one second
\* apart), the midnight of a date-only due of day 1, an instant of day 1
\* at a time of day 0's window, and no due
NotifyDues ==
  { Clock(0, 23, 52, 0), Clock(0, 23, 52, 1), Clock(0, 23, 57, 0),
    Clock(1, 0, 0, 0), Clock(1, 23, 52, 0), NoneVal }

\* "-NOTIFICATION_WINDOW_MINUTES <= minutes_until_due <=
\* NOTIFICATION_WINDOW_MINUTES", minutes_until_due being the seconds from
\* the current time of day to the due time of day, divided by 60
in_notification_window(due, wall) ==
  LET seconds_until_due == TimeOfClock(due) - TimeOfClock(wall)
  IN  /\ - NOTIFICATION_WINDOW_MINUTES * 60 <= seconds_until_due
      /\ seconds_until_due <= NOTIFICATION_WINDOW_MINUTES * 60

\* variant: the cooldown is as long as the window
in_cooldown_window(last_notified, wall) ==
  /\ last_notified # NoneVal
  /\ wall - last_notified < NOTIFICATION_WINDOW_MINUTES * 60

\* "if last_notified: minutes_since_last = (now - last_notified)
\* .total_seconds() / 60; if minutes_since_last <
\* NOTIFICATION_COOLDOWN_MINUTES: continue"
in_cooldown(last_notified, wall) ==
  /\ last_notified # NoneVal
  /\ wall - last_notified < NOTIFICATION_COOLDOWN_MINUTES * 60

\* one turn of "for task in tasks" reaches send_notification
notifies(task, wall, self_today, last_notified) ==
  /\ ~ task.completed
  /\ task.due # NoneVal
  /\ DateOfClock(task.due) = self_today
  /\ in_notification_window(task.due, wall)
  /\ ~ in_cooldown(last_notified, wall)

InitNotify ==
  /\ \E due1 \in NotifyDues :
       notifier = [at |-> "sleep",
                   clock |-> WallStart,
                   now |-> NoneVal,
                   today |-> DateOfClock(WallStart),
                   last_notification_time |-> [id \in NotifyIds |-> NoneVal],
                   tasks |-> [id \in NotifyIds |->
                                [due |-> IF id = "t1" THEN due1
                                         ELSE Clock(0, 23, 57, 0),
                                 completed |-> FALSE]],
                   fetched |-> NoFetched,
                   todo |-> {},
                   sent |-> {}]
  /\ pc = "notify"
  /\ store = <<>>
  /\ life = NoLife
  /\ has_key = FALSE
  /\ now = [min |-> 0, sec |-> 0]
  /\ today = 4
  /\ tasks = <<>>
  /\ blocked_slots = {}
  /\ recurring_slots = {}
  /\ life_block_cache = NoCache
  /\ bad_tasks = <<>>
  /\ idx = 1
  /\ gaps = <<>>
  /\ now_rounded = 0
  /\ pass = 1
  /\ updates = <<>>
  /\ placed = <<>>
  /\ outcome = <<>>
  /\ raised = ""
  /\ arg = <<>>
  /\ ret = <<>>

\* check_and_notify is called d seconds of wall clock after the previous
\* call returned: "now = dt.datetime.now()", and the record is cleared and
\* self.today set when the date differs
CheckAndNotifyCall ==
  /\ notifier.at = "sleep"
  /\ \E d \in NotifySeconds :
       LET wall == notifier.clock + d
           date_changed == DateOfClock(wall) # notifier.today
       IN  /\ wall <= WallStart + MaxWallSeconds
           /\ notifier' =
                [notifier EXCEPT
                   !.at = "fetch_tasks",
                   !.clock = wall,
                   !.now = wall,
                   !.today = DateOfClock(wall),
                   !.last_notification_time =
                      IF date_changed THEN [id \in NotifyIds |-> NoneVal] ELSE @]
  /\ LoopFrame

\* "try: tasks = self.fetch_tasks() except Exception: return": the store
\* answers after 0 or 320 seconds with the tasks it holds then, or the
\* call raises and check_and_notify returns
NotifyFetchTasks ==
  /\ notifier.at = "fetch_tasks"
  /\ \E d \in {0, 320}, answered \in BOOLEAN :
       /\ notifier.clock + d <= WallStart + MaxWallSeconds
       /\ notifier' =
            IF answered
            THEN [notifier EXCEPT !.at = "for",
                                  !.clock = @ + d,
                                  !.fetched = notifier.tasks,
                                  !.todo = NotifyIds]
            ELSE [notifier EXCEPT !.at = "sleep", !.clock = @ + d]
  /\ LoopFrame

\* one turn of "for task in tasks", on the task as it was fetched (the
\* ids are distinct, the order of the answer is any): a task that passes
\* the tests is notified, send_notification returning within the second,
\* and recorded with "now"; then is_computer_task answers, or its
\* save_cache(cache) raises and the exception leaves check_and_notify and
\* run()
NotifyForTurn ==
  /\ notifier.at = "for"
  /\ \E id \in notifier.todo, computer_task \in {"answers", "raises"} :
       IF notifies(notifier.fetched[id], notifier.now, notifier.today,
                   notifier.last_notification_time[id])
       THEN notifier' =
                 [notifier EXCEPT
                    !.at = IF computer_task = "raises" THEN "raised" ELSE "for",
                    !.todo = @ \ {id},
                    !.last_notification_time[id] = notifier.now,
                    !.sent = @ \cup { [task_id |-> id, at |-> notifier.now,
                                       day |-> notifier.today,
                                       wall |-> notifier.clock] }]
       ELSE notifier' = [notifier EXCEPT !.todo = @ \ {id}]
  /\ LoopFrame

\* the for loop is exhausted: check_and_notify returns
NotifyForEnds ==
  /\ notifier.at = "for"
  /\ notifier.todo = {}
  /\ notifier' = [notifier EXCEPT !.at = "sleep", !.fetched = NoFetched]
  /\ LoopFrame

\* the scheduler or the user gives task t1 another due
SetDue ==
  /\ \E due \in NotifyDues :
       /\ due # notifier.tasks["t1"].due
       /\ notifier' = [notifier EXCEPT !.tasks["t1"].due = due]
  /\ LoopFrame

\* the user completes task t2
Complete ==
  /\ ~ notifier.tasks["t2"].completed
  /\ notifier' = [notifier EXCEPT !.tasks["t2"].completed = TRUE]
  /\ LoopFrame

NextNotify ==
  \/ CheckAndNotifyCall
  \/ NotifyFetchTasks
  \/ NotifyForTurn
  \/ NotifyForEnds
  \/ SetDue
  \/ Complete

SpecNotify == InitNotify /\ [][NextNotify]_vars

\* ------------------------------------------------------------------------
\* Properties
\* ------------------------------------------------------------------------
IdsOf(ts) == { ts[i].id : i \in 1..Len(ts) }

HasMarker(task) == parse_duration_from_description(task.description) # NoneVal

DueToday(task) == task.due.has /\ DateOf(to_datetime(task.due)) = today

\* an instant inside the work hours of its day
InHours(t) ==
  /\ TimeOf(t) < SLEEP_TIME
  /\ HourOf(t) >= (IF WeekdayOf(t) \in {5, 6} THEN WEEKEND_START_HOUR
                   ELSE WEEKDAY_START_HOUR)

InLifeBlock(t) == t \in blocked_slots_for_date(life, DateOf(t), INTERVAL_MINUTES)

\* every instant of the range is legal against the occupied set occ and is
\* not in the recurring set rec
AllLegal(occ, rec, start, num_blocks) ==
  \A t \in BlockRange(start, num_blocks) :
     t \notin occ /\ t \notin rec /\ InHours(t) /\ ~InLifeBlock(t)

\* the step is a placement written by PLACE_EACH
PlacementStep == Len(placed') = Len(placed) + 1

LastPlaced == placed'[Len(placed')]

\* the slots of the non-completed recurring tasks due today, each expanded
\* over its own block count (marker, else at least the 10-minute fallback
\* or the smallest AI estimate)
OwnDuration(task) ==
  IF HasMarker(task) THEN parse_duration_from_description(task.description)
  ELSE IF has_key THEN MIN_DURATION
  ELSE 10

OwnSlots(task) == BlockRange(to_datetime(task.due), num_blocks_of(OwnDuration(task)))

RecurringToday ==
  UNION { OwnSlots(tasks[i]) :
            i \in { j \in 1..Len(tasks) :
                      /\ ~is_task_completed(tasks[j])
                      /\ DueToday(tasks[j])
                      /\ tasks[j].due.is_recurring } }

\* C1: no candidate of the current pass is placed on a range that meets a
\* slot of a non-completed recurring task due today.
C1_RecurringConflictFatal ==
  \A i \in 1..Len(placed) :
     placed[i].pass = pass
       => BlockRange(placed[i].start, placed[i].num_blocks) \cap RecurringToday = {}

\* C2: every instant of a range written by PLACE_EACH is, when it is
\* placed, outside the occupied set and the life blocks, before the sleep
\* boundary and not before the start hour of its day.
C2_PlacementLegal ==
  [][ PlacementStep =>
        \A t \in BlockRange(LastPlaced.start, LastPlaced.num_blocks) :
           t \notin blocked_slots /\ ~InLifeBlock(t) /\ InHours(t) ]_vars

\* a range of several blocks found by the forward scan on a later day,
\* after a placement at the start of the first gap
C2_Witness ==
  \E i \in 1..Len(placed), j \in 1..Len(placed) :
     /\ placed[i].num_blocks >= 2
     /\ DateOf(placed[i].start) > today
     /\ gaps # <<>>
     /\ placed[j].start = gaps[1][1]
     /\ placed[j].pass = placed[i].pass

\* C3: the ranges written for two candidates of one pass are disjoint.
C3_PlacementsDisjoint ==
  \A i \in 1..Len(placed), j \in 1..Len(placed) :
     (i < j /\ placed[i].pass = placed[j].pass)
       => BlockRange(placed[i].start, placed[i].num_blocks)
            \cap BlockRange(placed[j].start, placed[j].num_blocks) = {}

\* C4 as stated: the start written is the smallest grid instant at or after
\* the search start whose range is legal and not recurring, under the
\* occupancy at that moment.
C4_EarliestSlot ==
  [][ PlacementStep =>
        /\ LastPlaced.start >= now_rounded
        /\ AllLegal(blocked_slots, recurring_slots, LastPlaced.start,
                    LastPlaced.num_blocks)
        /\ \A k \in 0..(((LastPlaced.start - now_rounded) \div INTERVAL_MINUTES) - 1) :
              ~AllLegal(blocked_slots, recurring_slots,
                        now_rounded + INTERVAL_MINUTES * k, LastPlaced.num_blocks) ]_vars

\* gap g of the gap list is long enough for num_blocks and its first
\* num_blocks instants are legal and not recurring
GapQualifies(g, num_blocks) ==
  /\ gaps[g][2] - gaps[g][1] >= num_blocks * INTERVAL_MINUTES
  /\ AllLegal(blocked_slots, recurring_slots, gaps[g][1], num_blocks)

\* C4 amended: the start written is the start of the first gap of the gap
\* list that qualifies, or, when no gap qualifies, the smallest grid
\* instant at or after the search start whose range is legal and not
\* recurring.
C4_FirstGapElseEarliest ==
  [][ PlacementStep =>
        LET n == LastPlaced.num_blocks
            t == LastPlaced.start
            qualifying == { g \in 1..Len(gaps) : GapQualifies(g, n) }
        IN  IF qualifying # {}
            THEN t = gaps[SetMin(qualifying)][1]
            ELSE /\ t >= now_rounded
                 /\ AllLegal(blocked_slots, recurring_slots, t, n)
                 /\ \A k \in 0..(((t - now_rounded) \div INTERVAL_MINUTES) - 1) :
                       ~AllLegal(blocked_slots, recurring_slots,
                                 now_rounded + INTERVAL_MINUTES * k, n) ]_vars

\* a placement at the start of the second of two gaps, and one found by
\* the forward scan after the search start
C4_Witness ==
  /\ \E i \in 1..Len(placed) :
        /\ Len(gaps) >= 2
        /\ placed[i].start = gaps[2][1]
        /\ placed[i].pass = pass
  /\ \E i \in 1..Len(placed) :
        /\ placed[i].pass = pass
        /\ placed[i].start > now_rounded
        /\ \A g \in 1..Len(gaps) : gaps[g][1] # placed[i].start

\* the slot of a due-today task is valid: every instant of its range lies
\* in the work hours and none meets a recurring slot
SlotValid(task) ==
  \A t \in BlockRange(to_datetime(task.due),
                      num_blocks_of(parse_duration_from_description(task.description))) :
     InHours(t) /\ t \notin RecurringToday

\* the tasks SELECT_CANDIDATES is to return
Qualifies(task) ==
  /\ ~is_task_completed(task)
  /\ ~should_skip_reschedule(task)
  /\ \/ ~task.due.has
     \/ /\ task.due.has
        /\ ~task.due.is_recurring
        /\ \/ DateOf(to_datetime(task.due)) < today
           \/ DueToday(task) /\ HasMarker(task) /\ ~SlotValid(task)

\* C5: the candidate list holds exactly the fetched tasks that qualify.
C5_BadTasksExact ==
  pc = "place" =>
    IdsOf(bad_tasks) = { tasks[i].id : i \in { j \in 1..Len(tasks) : Qualifies(tasks[j]) } }

\* a non-recurring task due today without a duration marker
UnmarkedToday(task) ==
  task.due.has /\ ~task.due.is_recurring /\ DueToday(task) /\ ~HasMarker(task)

\* C6: a non-recurring task due today without a marker is no candidate and
\* no pass has written its due instant or its description.
C6_UnmarkedTodayUntouched ==
  /\ \A i \in 1..Len(bad_tasks) : ~UnmarkedToday(bad_tasks[i])
  /\ \A u \in 1..Len(updates) :
        updates[u].kind # "priority"
          => \A i \in 1..Len(store) :
                store[i].id = updates[u].id => ~UnmarkedToday(store[i])

C6_Witness ==
  /\ pc = "done"
  /\ pass = MaxPasses
  /\ placed # <<>>
  /\ \E i \in 1..Len(tasks) : UnmarkedToday(tasks[i])

\* a placement of an earlier pass that ran to completion, seen from a
\* later pass on the same calendar day
PlacedEarlier(i) ==
  /\ placed[i].pass < pass
  /\ outcome[placed[i].pass] = "done"
  /\ DateOf(now.min) = today

\* C7 as stated: a task placed by a completed pass is no candidate of the
\* next pass and no update_task call is issued for it.
C7_NoThrash ==
  \A i \in 1..Len(placed) :
     PlacedEarlier(i)
       => /\ pc \in {"place", "done"} => placed[i].id \notin IdsOf(bad_tasks)
          /\ \A u \in 1..Len(updates) :
                updates[u].pass = pass => updates[u].id # placed[i].id

\* C7 amended: a task placed by a completed pass is no candidate of the
\* next pass and no update_task call changing its due value or its
\* description is issued for it.
C7_NoThrashOfPlacement ==
  \A i \in 1..Len(placed) :
     PlacedEarlier(i)
       => /\ pc \in {"place", "done"} => placed[i].id \notin IdsOf(bad_tasks)
          /\ \A u \in 1..Len(updates) :
                (updates[u].pass = pass /\ updates[u].id = placed[i].id)
                  => updates[u].kind = "priority"

C7_Witness ==
  /\ pc = "done"
  /\ \E i \in 1..Len(placed) :
        /\ PlacedEarlier(i)
        /\ DateOf(placed[i].start) = today
        /\ placed[i].id \in IdsOf(tasks)
  /\ \E i \in 1..Len(placed) :
        PlacedEarlier(i) /\ DateOf(placed[i].start) > today

\* the fetched tasks whose placement build_blocked_times is to block
HoldsSlotToday(task) ==
  /\ ~is_task_completed(task)
  /\ ~should_skip_reschedule(task)
  /\ DueToday(task)

\* C8: once build_blocked_times has run, the occupied set holds the slots
\* of every fetched, non-completed, non-exempt task due today, and the
\* recurring set those of the recurring ones.
C8_BuildBlocksTasks ==
  pc \in {"resched", "select"} =>
    \A i \in 1..Len(tasks) :
       HoldsSlotToday(tasks[i])
         => /\ OwnSlots(tasks[i]) \subseteq blocked_slots
            /\ tasks[i].due.is_recurring => OwnSlots(tasks[i]) \subseteq recurring_slots

\* the grid instants of today from the start up to the end of the day
FreeInstants ==
  { t \in { now_rounded + INTERVAL_MINUTES * k : k \in 0..(MinutesPerDay \div INTERVAL_MINUTES) } :
      t < Combine(today, SLEEP_TIME) /\ t \notin blocked_slots }

InGap(t, g) == gaps[g][1] <= t /\ t < gaps[g][2]

\* C9: the gaps are ascending and pairwise disjoint, hold no occupied slot
\* at or after the start, cover every free grid instant of [start,
\* end_of_day) exactly once, begin at the start or right after an occupied
\* slot and end at an occupied slot or at the end of the day; the run
\* 09:00, 09:05, 09:10 from 09:00 gives the single gap from 09:15.
C9_GapsPartitionFreeTime ==
  pc = "gaps_out" =>
    /\ \A g \in 1..Len(gaps), h \in 1..Len(gaps) :
          g < h => gaps[g][1] < gaps[h][1] /\ gaps[g][2] <= gaps[h][1]
    /\ \A g \in 1..Len(gaps) :
          \A t \in blocked_slots : t >= now_rounded => ~InGap(t, g)
    /\ \A t \in FreeInstants :
          Cardinality({ g \in 1..Len(gaps) : InGap(t, g) }) = 1
    /\ \A g \in 1..Len(gaps) :
          /\ gaps[g][1] = now_rounded
               \/ (gaps[g][1] - INTERVAL_MINUTES) \in blocked_slots
          /\ gaps[g][2] = Combine(today, SLEEP_TIME) \/ gaps[g][2] \in blocked_slots
    /\ (blocked_slots = GapExample /\ now_rounded = At(4, 9, 0))
          => gaps = << <<At(4, 9, 15), Combine(today, SLEEP_TIME)>> >>

C9_Witness ==
  /\ pc = "gaps_out"
  /\ now_rounded \in blocked_slots
  /\ (now_rounded + INTERVAL_MINUTES) \in blocked_slots
  /\ Len(gaps) >= 2

\* C10: every gap lies in today's window from the start to the end of the
\* day and is not empty.
C10_GapsInsideWindow ==
  pc = "gaps_out" =>
    \A g \in 1..Len(gaps) :
       /\ now_rounded <= gaps[g][1]
       /\ gaps[g][1] < gaps[g][2]
       /\ gaps[g][2] <= Combine(today, SLEEP_TIME)

\* C11: find_gap_for_task returns the start of the first gap, in list
\* order, that is long enough and whose first num_blocks instants are all
\* legal and not recurring; a gap failing this is rejected as a whole (no
\* other instant of it is returned); None when no gap qualifies.
C11_FirstQualifyingGap ==
  pc = "fit_out" =>
    LET qualifying == { g \in 1..Len(gaps) : GapQualifies(g, arg.num_blocks) }
    IN  /\ qualifying = {} => ret = NoneVal
        /\ qualifying # {} => ret = gaps[SetMin(qualifying)][1]
        /\ ret # NoneVal => \E g \in 1..Len(gaps) : ret = gaps[g][1]

\* the first gap is long enough but holds a recurring slot in the interior
\* of the range, although a later start inside it would fit; the second
\* gap is returned
C11_Witness ==
  /\ pc = "fit_out"
  /\ Len(gaps) = 2
  /\ arg.num_blocks = 2
  /\ gaps[1] = <<At(4, 20, 25), At(4, 20, 45)>>
  /\ recurring_slots = {At(4, 20, 30)}
  /\ blocked_slots = {}
  /\ ret = gaps[2][1]
  /\ ret = At(4, 20, 35)

\* seconds since the origin of the clock of the pass
NowSeconds == 60 * now.min + now.sec

\* the least multiple of the interval, in seconds, that is >= n
CeilToGrid(n) ==
  LET w == 60 * INTERVAL_MINUTES IN ((n + w - 1) \div w) * w

PlacedInPass == { k \in 1..Len(placed) : placed[k].pass = pass }

\* C12: the search start of a pass is on the interval grid, is the later
\* of now + 1 hour rounded up and now rounded up to the next interval
\* boundary, is never earlier than now + 1 hour, and every due instant
\* written in the pass is at or after it.
C12_SearchStartAfterLead ==
  pc = "place" =>
    /\ now_rounded % INTERVAL_MINUTES = 0
    /\ 60 * now_rounded = Max2(CeilToGrid(NowSeconds + 60 * LEAD_MINUTES),
                               CeilToGrid(NowSeconds))
    /\ 60 * now_rounded >= NowSeconds + 60 * LEAD_MINUTES
    /\ \A k \in PlacedInPass : placed[k].start >= now_rounded

\* the task's due value has no time of day: "date-only" as the claims use
\* the word
DateOnlyDue(task) == task.due.has /\ ~task.due.timed

\* what the end-to-end example is given: a weekday without life blocks and
\* without any task due today, no AI credential, and one candidate without
\* a marker whose keyword estimate is 25 minutes; the pass has completed
C13_Given ==
  /\ pc = "done"
  /\ ~has_key
  /\ life = NoLife
  /\ WeekdayOf(Combine(today, 0)) \notin {5, 6}
  /\ \A i \in 1..Len(tasks) : ~DueToday(tasks[i])
  /\ Len(bad_tasks) = 1
  /\ ~HasMarker(bad_tasks[1])
  /\ estimate_heuristic(bad_tasks[1].content, bad_tasks[1].description) = 25

\* the candidate was placed at the search start and the store now holds
\* description d for it
C13_PlacedAtStartWith(d) ==
  /\ \E k \in PlacedInPass :
        /\ placed[k].id = bad_tasks[1].id
        /\ placed[k].start = now_rounded
        /\ placed[k].num_blocks = 5
  /\ \E i \in 1..Len(store) :
        /\ store[i].id = bad_tasks[1].id
        /\ store[i].due.at = now_rounded
        /\ store[i].description = d

\* C13 with the scheduler's working hours and its stripping of the
\* description taken into account: the same, provided the 25 minutes from
\* the search start lie inside today's working hours and the candidate is
\* not a date-only task due before today; the description written is the
\* old one followed by " 25m" with surrounding whitespace stripped ("25m"
\* when it was empty).
C13_EndToEndInHours ==
  ( /\ C13_Given
    /\ DateOf(now_rounded) = today
    /\ \A t \in BlockRange(now_rounded, 5) : InHours(t)
    /\ ~(DateOnlyDue(bad_tasks[1]) /\ get_date(bad_tasks[1].due) < today) )
  => C13_PlacedAtStartWith(Strip(bad_tasks[1].description \o <<" ","2","5","m">>))

\* the step is reschedule_overdue_recurring
RescheduleStep == pc = "resched" /\ pc' # "resched"

\* the update_task calls the step issued and the store accepted
NewUpdates == SubSeq(updates', Len(updates) + 1, Len(updates'))

\* fetched tasks that are not completed, recurring, and due on a date
\* before today
OverdueRecurringIds ==
  { tasks[i].id : i \in { j \in 1..Len(tasks) :
       /\ ~tasks[j].is_completed
       /\ tasks[j].completed_at = NoneVal
       /\ tasks[j].due.has
       /\ tasks[j].due.is_recurring
       /\ DateOf(tasks[j].due.at) < today } }

\* C14: reschedule_overdue_recurring issues updates only for fetched tasks
\* that are not completed, recurring and due before today, at most one per
\* task, each carrying the task's own recurrence text as due_string and
\* nothing else; when it returns, there is exactly one per such task, and
\* its return value (the count, which run() compares with 0) is positive
\* exactly when there is such a task.
C14_ResubmitOverdueRecurring ==
  [][ RescheduleStep =>
        /\ \A k \in 1..Len(NewUpdates) :
              /\ NewUpdates[k].kind = "due_string"
              /\ NewUpdates[k].id \in OverdueRecurringIds
              /\ \E i \in 1..Len(tasks) :
                    /\ tasks[i].id = NewUpdates[k].id
                    /\ tasks[i].due.string = NewUpdates[k].string
              /\ NewUpdates[k].at = NoneVal
              /\ ~NewUpdates[k].set_desc
              /\ NewUpdates[k].priority = NoneVal
              /\ \A j \in 1..Len(NewUpdates) :
                    NewUpdates[j].id = NewUpdates[k].id => j = k
        /\ pc' # "failed" =>
              /\ { NewUpdates[k].id : k \in 1..Len(NewUpdates) } = OverdueRecurringIds
              /\ (pc' = "refetch") = (OverdueRecurringIds # {}) ]_vars

\* task 6 was resubmitted while a recurring task due today and a completed
\* overdue recurring task were fetched with it and left alone
C14_Witness ==
  /\ pc = "refetch"
  /\ {5, 6, 15} \subseteq IdsOf(tasks)
  /\ { updates[k].id : k \in { j \in 1..Len(updates) :
          updates[j].kind = "due_string" /\ updates[j].pass = pass } } = {6}

\* the due value of every task as the store held it when the scheduler was
\* started, by start day and task id
OriginalDue ==
  [d \in { env.today : env \in Envs } |->
     [id \in 1..Len(TaskPool(d)) |-> TaskPool(d)[id].due]]

\* C15: no fixed due instant is ever written to a task whose due is
\* recurring; the only due write it receives is its own recurrence text,
\* and it stays recurring in the store with that text, over all passes.
C15_RecurringStaysRecurring ==
  /\ \A k \in 1..Len(updates) :
        /\ updates[k].kind = "due_datetime"
              => ~OriginalDue[today][updates[k].id].is_recurring
        /\ OriginalDue[today][updates[k].id].is_recurring /\ updates[k].kind = "due_string"
              => updates[k].string = OriginalDue[today][updates[k].id].string
  /\ \A i \in 1..Len(store) :
        OriginalDue[today][store[i].id].is_recurring =>
          /\ store[i].due.is_recurring
          /\ store[i].due.string = OriginalDue[today][store[i].id].string

\* the second pass has completed, an overdue recurring task was
\* resubmitted, a recurring task with an overrunning slot today was
\* fetched, and another task was placed
C15_Witness ==
  /\ pc = "done"
  /\ pass = 2
  /\ {5, 6} \subseteq IdsOf(tasks)
  /\ \E k \in 1..Len(updates) : updates[k].kind = "due_string" /\ updates[k].id = 6
  /\ placed # <<>>

\* C16: whenever candidates are about to be selected, the task list is the
\* one the store holds now, so it was fetched after the last reschedule
\* write of the pass, and the occupied and recurring sets are freshly
\* built: nothing of an earlier fetch or an earlier pass is left in them.
C16_RefetchAfterReschedule ==
  pc = "select" =>
    /\ tasks = SelectSeq(store, LAMBDA t : "#testnotification" \notin t.labels)
    /\ blocked_slots = { t \in blocked_slots : DateOf(t) = today /\ InLifeBlock(t) }
    /\ PlacedInPass = {}

\* candidates are about to be selected in a pass that resubmitted task 6,
\* and the fetched list shows it at its new date
C16_Witness ==
  /\ pc = "select"
  /\ \E k \in 1..Len(updates) :
        /\ updates[k].kind = "due_string"
        /\ updates[k].pass = pass
        /\ updates[k].id = 6
  /\ \E i \in 1..Len(tasks) : tasks[i].id = 6 /\ DateOf(tasks[i].due.at) >= today

\* the position of a task in the fetched list
FetchIndex(id) == CHOOSE i \in 1..Len(tasks) : tasks[i].id = id

\* C17: the candidates are processed in descending priority, and two of
\* equal priority in the order in which they were fetched.
C17_PriorityOrder ==
  pc = "place" =>
    /\ \A i \in 1..Len(bad_tasks), j \in 1..Len(bad_tasks) :
          i < j =>
            \/ bad_tasks[i].priority > bad_tasks[j].priority
            \/ /\ bad_tasks[i].priority = bad_tasks[j].priority
               /\ FetchIndex(bad_tasks[i].id) < FetchIndex(bad_tasks[j].id)
    /\ \A k \in PlacedInPass, l \in PlacedInPass :
          k < l =>
            \E i \in 1..Len(bad_tasks), j \in 1..Len(bad_tasks) :
               /\ i < j
               /\ bad_tasks[i].id = placed[k].id
               /\ bad_tasks[j].id = placed[l].id

\* three candidates were placed: the one of priority 3 before the two of
\* priority 2, although it was fetched after one of them, and the two of
\* priority 2 in fetch order
C17_Witness ==
  /\ pc = "place"
  /\ Len(bad_tasks) = 3
  /\ idx = 4
  /\ bad_tasks[1].id = 9
  /\ bad_tasks[2].id = 4
  /\ bad_tasks[3].id = 14
  /\ Cardinality(PlacedInPass) = 3

\* ids of the due_string updates accepted in the current pass
ResubmittedInPass ==
  { updates[k].id : k \in { j \in 1..Len(updates) :
      updates[j].kind = "due_string" /\ updates[j].pass = pass } }

\* C18: a store write that fails for one task during RESCHEDULE_RECURRING
\* or PLACE_EACH does not abort the pass: when the pass has ended, every
\* other overdue recurring task has been resubmitted and every candidate
\* after the failing one (the date-only ones may be skipped) has been
\* placed and written.
C18_WriteFailureDoesNotAbort ==
  pc \in {"done", "failed"} =>
    /\ raised = "update_task(due_string)" =>
          Cardinality(OverdueRecurringIds \ ResubmittedInPass) <= 1
    /\ raised = "update_task(due_datetime)" =>
          \A k \in (idx + 1)..Len(bad_tasks) :
             \/ is_date_only_task(bad_tasks[k])
             \/ \E l \in PlacedInPass : placed[l].id = bad_tasks[k].id

\* C19: once the forward search has run out of iterations, the error
\* stays with the caller of the pass: it is not discarded, the loop does
\* not carry on with another pass as if nothing had happened, and the
\* placements already written stay as written.
C19_ExhaustionSurfaces ==
  [][ (pc = "failed" /\ raised = "RuntimeError") =>
        /\ pc' = "failed"
        /\ raised' = raised
        /\ placed' = placed
        /\ store' = store ]_vars

\* the AI estimator gives a value: a credential is configured and the
\* answer holds a number
AIAnswers == arg.has_key /\ arg.reply # NoneVal

\* C20: estimate always returns a duration of at least the minimum, first
\* match winning: with a marker in the description, the marker's value and
\* true, whatever the AI estimator would answer; otherwise, when the AI
\* estimator gives a value, that value and false; otherwise (no
\* credential, failed call, no number in the answer) the keyword
\* heuristic's value and false.
C20_EstimateCascade ==
  pc = "estimate_out" =>
    /\ ret \in Nat \X BOOLEAN
    /\ ret[1] >= MIN_DURATION
    /\ DURATION_PATTERN(arg.description) # {} =>
          ret = <<parse_duration_from_description(arg.description), TRUE>>
    /\ DURATION_PATTERN(arg.description) = {} /\ AIAnswers =>
          ret = <<estimate_minutes(TRUE, arg.reply, INTERVAL_MINUTES, MIN_DURATION), FALSE>>
    /\ DURATION_PATTERN(arg.description) = {} /\ ~AIAnswers =>
          /\ ret = <<estimate_heuristic(arg.content, arg.description), FALSE>>
          /\ ret[1] \in {DURATION_QUICK, DURATION_MEDIUM, DURATION_LONG, DEFAULT_DURATION}

\* the marker "12m" won (10 minutes) although the AI estimator would have
\* answered 47
C20_Witness ==
  /\ pc = "estimate_out"
  /\ arg.description = <<"1","2","m">>
  /\ arg.has_key
  /\ arg.reply = 47
  /\ ret = <<10, TRUE>>

\* ------------------------------------------------------------------------
\* C21..C30
\* ------------------------------------------------------------------------
\* the number written in the last marker of description d (d has a marker)
LastMarkerMinutes(d) ==
  LET ms == DURATION_PATTERN(d)
      last == CHOOSE m \in ms : \A o \in ms : o[2] <= m[2]
  IN  ParseInt(SubSeq(d, last[1], last[2] - 1))

\* the multiple of INTERVAL_MINUTES nearest to n
NearestMultiple(n) ==
  LET cands == { INTERVAL_MINUTES * k : k \in 0..((n \div INTERVAL_MINUTES) + 1) }
      dist(c) == IF c >= n THEN c - n ELSE n - c
  IN  CHOOSE c \in cands : \A o \in cands : o # c => dist(c) < dist(o)

\* C21: for a description with at least one marker the lookup returns the
\* number of the last marker rounded to the nearest multiple of
\* INTERVAL_MINUTES and clamped below at MIN_DURATION, a multiple of
\* INTERVAL_MINUTES that is at least MIN_DURATION, and estimate reports it
\* as user-specified; without a marker the lookup returns none.
C21_MarkerRoundedAndClamped ==
  pc = "estimate_out" =>
    LET d == arg.description
        got == parse_duration_from_description(d)
    IN  IF DURATION_PATTERN(d) # {}
        THEN /\ got = Max2(MIN_DURATION, NearestMultiple(LastMarkerMinutes(d)))
             /\ got % INTERVAL_MINUTES = 0
             /\ got >= MIN_DURATION
             /\ ret = <<got, TRUE>>
        ELSE /\ got = NoneVal
             /\ ret[2] = FALSE

\* "37m" was looked up: 35 minutes, user-specified
C21_Witness ==
  /\ pc = "estimate_out"
  /\ arg.description = <<"3","7","m">>
  /\ ret = <<35, TRUE>>

\* C22: adding the marker of duration d to a description that already
\* went through the same addition changes nothing.
C22_AddIdempotent ==
  pc = "stamp_twice" => ret[2] = ret[1]

\* descriptions without a marker, with one and with several were stamped
\* twice with 25 minutes
C22_Witness ==
  /\ pc = "stamp_twice"
  /\ arg.duration = 25
  /\ arg.description = <<"4","0","m"," ","2","m">>
  /\ ret = << <<"2","5","m"," ","2","m">>, <<"2","5","m"," ","2","m">> >>

\* a duration the cascade can produce: on the grid and at least the minimum
OnGrid(d) == d % INTERVAL_MINUTES = 0 /\ d >= MIN_DURATION

\* what the next pass gets for the stamped description: the stamped
\* duration from the marker, whatever the AI would answer
StampRead ==
  /\ parse_duration_from_description(ret[1]) = arg.duration
  /\ ret[2] = <<arg.duration, TRUE>>

\* C23: for every description and every duration on the grid, the marker
\* lookup on the stamped description returns that duration, and the next
\* estimate reports it as user-specified without the AI's answer.
C23_StampSticky ==
  (pc = "stamp_read" /\ OnGrid(arg.duration)) => StampRead

\* C23 amended: the same for every description that holds at most one
\* marker, which includes every description a pass stamps (a pass stamps
\* only where the lookup found no marker).
C23_StampStickyOneMarker ==
  ( /\ pc = "stamp_read"
    /\ OnGrid(arg.duration)
    /\ Cardinality(DURATION_PATTERN(arg.description)) <= 1 )
  => StampRead

\* " x" was stamped with 25 minutes and read back while the AI answered 12
C23_Witness ==
  /\ pc = "stamp_read"
  /\ arg = [description |-> <<" ","x">>, duration |-> 25, reply |-> 12]
  /\ ret = << <<"x"," ","2","5","m">>, <<25, TRUE>> >>

\* C24: the turn of a date-only candidate whose date is not today writes
\* nothing to the store and leaves the occupied set and the gap list as
\* they were; the loop goes on with the next candidate.
C24_DateOnlyElsewhereSkipped ==
  [][ ( /\ pc = "place"
        /\ idx <= Len(bad_tasks)
        /\ is_date_only_task(bad_tasks[idx])
        /\ get_date(bad_tasks[idx].due) # today )
      => /\ store' = store
         /\ updates' = updates
         /\ placed' = placed
         /\ blocked_slots' = blocked_slots
         /\ gaps' = gaps
         /\ idx' = idx + 1
         /\ pc' = "place" ]_vars

\* the pass is over: the date-only candidate of yesterday had its turn
\* before a candidate that was placed, and the store holds it as it was
C24_Witness ==
  /\ pc = "done"
  /\ Len(bad_tasks) = 2
  /\ bad_tasks[1].id = 10
  /\ \E k \in 1..Len(placed) : placed[k].id = bad_tasks[2].id /\ placed[k].pass = pass
  /\ \A u \in 1..Len(updates) : updates[u].id # 10
  /\ \E i \in 1..Len(store) : store[i] = bad_tasks[1]

\* the task with identifier id as the store st holds it
InStore(st, id) == st[CHOOSE i \in 1..Len(st) : st[i].id = id]

\* description d followed by the marker of n minutes
Stamped(d, n) ==
  IF d = <<>> THEN IntToStr(n) \o <<"m">>
  ELSE Strip(d \o <<" ">> \o IntToStr(n) \o <<"m">>)

\* C25: a placement is one update_task call.  For a candidate with a
\* marker it carries the new due instant only and the store keeps the
\* description; for a candidate without one it carries the new due instant
\* and the description followed by the marker of the estimated duration,
\* and the store takes both.
C25_PlacementWrite ==
  [][ PlacementStep =>
        LET task == bad_tasks[idx]
            u == updates'[Len(updates')]
            minutes == LastPlaced.num_blocks * INTERVAL_MINUTES
        IN  /\ Len(updates') = Len(updates) + 1
            /\ u.kind = "due_datetime"
            /\ u.id = task.id
            /\ u.at = LastPlaced.start
            /\ InStore(store', task.id).due = TimedDue(LastPlaced.start)
            /\ IF HasMarker(task)
               THEN /\ ~u.set_desc
                    /\ minutes = parse_duration_from_description(task.description)
                    /\ InStore(store', task.id).description = task.description
               ELSE /\ u.set_desc
                    /\ u.description = Stamped(task.description, minutes)
                    /\ InStore(store', task.id).description = u.description ]_vars

\* one pass placed a candidate with a marker and one without: the first
\* kept its description, the second got the marker
C25_Witness ==
  /\ pc = "done"
  /\ \E a, b \in 1..Len(updates) :
        /\ updates[a].kind = "due_datetime" /\ ~updates[a].set_desc
        /\ updates[b].kind = "due_datetime" /\ updates[b].set_desc
        /\ updates[a].pass = updates[b].pass
        /\ updates[b].description = <<"x"," ","2","5","m">>
        /\ InStore(store, updates[b].id).description = <<"x"," ","2","5","m">>
        /\ InStore(store, updates[a].id).description = <<"5","m">>

\* C26: a placement written in this pass stays in the occupied set for the
\* rest of the pass, so that the candidates after it avoid it.
C26_OwnPlacementOccupied ==
  pc \in {"place", "done"} =>
    \A k \in PlacedInPass :
       BlockRange(placed[k].start, placed[k].num_blocks) \subseteq blocked_slots

\* C27: in every pass the date the scheduler uses as today is the calendar
\* date of the clock of that pass.
C27_TodayIsCalendarDate == today = DateOf(now.min)

\* C28: no accepted update_task call sets the due value of a task that
\* carries #dontchangetime, and a task that carries #testnotification is
\* in no fetched task list and in no update_task call.
C28_LabelsExempt ==
  \A i \in 1..Len(store) :
     /\ "#dontchangetime" \in store[i].labels =>
          \A u \in 1..Len(updates) :
             updates[u].id = store[i].id
               => updates[u].kind \notin {"due_string", "due_datetime"}
     /\ "#testnotification" \in store[i].labels =>
          /\ store[i].id \notin IdsOf(tasks)
          /\ \A u \in 1..Len(updates) : updates[u].id # store[i].id

\* C29: in every state of a pass, from the build on and through every
\* unblocking and blocking of the placements, the recurring set is a subset
\* of the occupied set.
C29_RecurringWithinOccupied ==
  pc \in {"resched", "refetch", "rebuild", "select", "place", "done", "failed"}
    => recurring_slots \subseteq blocked_slots

\* the pass is over and the unblocking of a candidate's old slot has taken
\* an instant out of the occupied set: two placements of the pass start at
\* the same instant
C29_Witness ==
  /\ pc = "done"
  /\ \E a, b \in PlacedInPass : a # b /\ placed[a].start = placed[b].start
  /\ recurring_slots \subseteq blocked_slots

\* C30: at most one scheduler.run() is in progress at any time, whatever
\* overlay threads are alive, and a pass is started only when at least
\* SCHEDULER_INTERVAL_SECONDS have gone by since the previous one was
\* started.
C30_OnePassAtATime ==
  [][ /\ notifier'.in_progress <= 1
      /\ notifier'.passes > notifier.passes =>
            /\ notifier.in_progress = 0
            /\ \/ notifier.last_started = NoneVal
               \/ notifier'.last_started - notifier.last_started
                     >= SCHEDULER_INTERVAL_SECONDS ]_vars

\* the third pass is in progress while an overlay thread is alive
C30_Witness ==
  /\ pc = "loop"
  /\ notifier.at = "running"
  /\ notifier.passes = 3
  /\ notifier.in_progress = 1
  /\ notifier.overlays = 1

\* ------------------------------------------------------------------------
\* C31..C40
\* ------------------------------------------------------------------------
\* is_slot_available at the k-th instant of the scan of the call
ScanHit(k) ==
  is_slot_available(arg.blocked, arg.recurring, arg.life,
                    arg.start_time + INTERVAL_MINUTES * k, arg.num_blocks)

\* C31: find_available_slot(start, num_blocks) ends after at most 10000
\* loop turns, advancing one interval per turn; it returns the earliest
\* instant start + k * INTERVAL_MINUTES, 0 <= k < 10000, at which
\* is_slot_available holds, and raises exactly when there is no such k.
C31_ScanEarliestWithinLimit ==
  /\ pc \in {"scan", "scan_out", "scan_raised"} =>
        /\ ret.turns <= SEARCH_LIMIT
        /\ pc = "scan" => ret.time = arg.start_time + INTERVAL_MINUTES * ret.turns
  /\ pc = "scan_out" =>
        \E k \in 0..(SEARCH_LIMIT - 1) :
           /\ ret.value = arg.start_time + INTERVAL_MINUTES * k
           /\ ret.turns = k + 1
           /\ ScanHit(k)
           /\ \A j \in 0..(k - 1) : ~ScanHit(j)
  /\ pc = "scan_raised" => \A k \in 0..(SEARCH_LIMIT - 1) : ~ScanHit(k)

\* the scan from Friday 20:35 for three blocks returned Saturday 09:00
\* after 150 turns
C31_Witness ==
  /\ pc = "scan_out"
  /\ arg.start_time = At(4, 20, 35)
  /\ arg.num_blocks = 3
  /\ ret.value = At(5, 9, 0)
  /\ ret.turns = 150

\* instants of the placements written earlier in this pass for other tasks
OthersPlaced(id) ==
  UNION { BlockRange(placed[k].start, placed[k].num_blocks) :
            k \in { j \in PlacedInPass : placed[j].id # id } }

\* C32: when a candidate that already held a slot is moved, the occupied
\* set afterwards contains every instant of the new block range, contains
\* no instant of the previous block range except those of the new range,
\* of a life block or of another task, and has lost no instant that
\* another task placed earlier in the same pass occupies.
C32_MoveUnblocksOwnSlotOnly ==
  [][ (PlacementStep /\ bad_tasks[idx].due.has) =>
        LET task == bad_tasks[idx]
            new_range == BlockRange(LastPlaced.start, LastPlaced.num_blocks)
            old_range == BlockRange(to_datetime(task.due), LastPlaced.num_blocks)
        IN  /\ new_range \subseteq blocked_slots'
            /\ \A t \in old_range \cap blocked_slots' :
                  t \in new_range \/ InLifeBlock(t) \/ t \in OthersPlaced(task.id)
            /\ (OthersPlaced(task.id) \cap blocked_slots) \subseteq blocked_slots' ]_vars

\* a non-recurring task of the fetched list, due today with a marker, of
\* whose block range an instant falls inside a life block of today
HeldInsideLifeBlock(task) ==
  /\ ~is_task_completed(task)
  /\ ~should_skip_reschedule(task)
  /\ task.due.has
  /\ ~task.due.is_recurring
  /\ DueToday(task)
  /\ HasMarker(task)
  /\ \E t \in OwnSlots(task) :
        t \in blocked_slots_for_date(life, today, INTERVAL_MINUTES)

\* C33: life blocks are part of the envelope of slot validity: a
\* non-recurring task due today with a marker, whose block range contains
\* an instant inside a life block of today, has a slot that is not valid
\* and is among the candidates of the pass.
C33_LifeBlockInvalidatesSlot ==
  pc = "place" =>
    \A i \in 1..Len(tasks) :
       HeldInsideLifeBlock(tasks[i]) =>
          /\ ~is_current_slot_valid(tasks[i], OwnDuration(tasks[i]), today,
                                    recurring_slots)
          /\ tasks[i].id \in IdsOf(bad_tasks)

\* a text of the form H:M after stripping, with its value in minutes
TimeTexts ==
  { <<<<"1","6",":","0","0">>, 960>>, <<<<"1","6",":","1","0">>, 970>>,
    <<<<"1","6",":","1","2">>, 972>>, <<<<" ","9",":","5"," ">>, 545>> }

IsTimeText(s) == \E p \in TimeTexts : p[1] = s

MinutesOfText(s) == (CHOOSE p \in TimeTexts : p[1] = s)[2]

\* the day list names the weekday of the date: an entry that is not empty
\* begins, white space stripped and in lower case, with the three letters
\* of the date's weekday
NamesWeekday(days, date) ==
  \E i \in 1..Len(days) :
     LET low == Lower(Strip(days[i]))
     IN  /\ Len(low) >= 3
         /\ SubSeq(low, 1, 3) = DaySlugs[(date % 7) + 1]

\* the instants start + k * interval with start <= instant < end of a block
\* whose start and end texts are times
SlotsBetween(block, date) ==
  IF ~(IsTimeText(block.start) /\ IsTimeText(block.end)) THEN {}
  ELSE LET lo == Combine(date, MinutesOfText(block.start))
           hi == Combine(date, MinutesOfText(block.end))
       IN  { t \in lo..(hi - 1) : (t - lo) % INTERVAL_MINUTES = 0 }

\* C35: blocked_slots_for_date(date) returns exactly the instants
\* start + k * interval, start <= instant < end, of every one-off block
\* whose date is the date and every weekly block whose day list names the
\* date's weekday; a block with end <= start or with a start or end that
\* does not parse, and a block of another date or weekday, adds no slot.
C35_BlockedSlotsExact ==
  pc = "blocks_out" =>
    ret = UNION ({ SlotsBetween(arg.file.one_off[i], arg.date) :
                     i \in { j \in 1..Len(arg.file.one_off) :
                               arg.file.one_off[j].date = arg.date } }
                 \cup { SlotsBetween(arg.file.weekly[i], arg.date) :
                          i \in { j \in 1..Len(arg.file.weekly) :
                                    NamesWeekday(arg.file.weekly[j].days, arg.date) } })

\* a one-off block of Friday 16:00-16:12 and a weekly block "Friday"
\* 9:05-16:10 give, for Friday, 09:05 .. 16:05 together with 16:10
C35_Witness ==
  /\ pc = "blocks_out"
  /\ arg.date = 4
  /\ Len(arg.file.one_off) = 1
  /\ Len(arg.file.weekly) = 1
  /\ arg.file.weekly[1].days = << <<"F","r","i","d","a","y">>, <<>> >>
  /\ ret = { At(4, 9, 5) + INTERVAL_MINUTES * k : k \in 0..84 } \cup { At(4, 16, 10) }

\* C34: every slot put in the occupied set during a pass, from a life
\* block, from a task's existing placement or from a new placement, is on
\* the INTERVAL_MINUTES grid (and so are the recurring set, the life slots
\* kept per date, the gap bounds and the search start they are compared
\* with).
C34_OccupiedOnGrid ==
  /\ \A t \in blocked_slots \cup recurring_slots : t % INTERVAL_MINUTES = 0
  /\ \A d \in DOMAIN life_block_cache :
        \A t \in life_block_cache[d] : t % INTERVAL_MINUTES = 0
  /\ \A k \in 1..Len(placed) : placed[k].start % INTERVAL_MINUTES = 0
  /\ pc = "place" =>
        /\ now_rounded % INTERVAL_MINUTES = 0
        /\ \A g \in 1..Len(gaps) : gaps[g][1] % INTERVAL_MINUTES = 0

\* on Friday, with the life block 09:05-15:20 in the file when the pass
\* built its occupied set, a task was placed at 15:20, right after the block
C34_Witness ==
  /\ pc = "place"
  /\ today = 4
  /\ {At(4, 15, 10), At(4, 15, 15)} \subseteq blocked_slots
  /\ \E k \in PlacedInPass : placed[k].start = At(4, 15, 20)

\* the due_datetime calls accepted in the current pass for the task
DueWritesInPass(id) ==
  { k \in 1..Len(updates) :
      updates[k].pass = pass /\ updates[k].kind = "due_datetime" /\ updates[k].id = id }

\* C36: when a pass ends without a store error or an exhausted search,
\* PLACE_EACH has issued exactly one update_task call for every candidate
\* that is not date-only and at most one for every date-only candidate,
\* and no task outside the candidate list has got a due-instant write.
C36_OneWritePerCandidate ==
  [][ (pc = "place" /\ pc' = "done") =>
        /\ \A i \in 1..Len(bad_tasks') :
              LET n == Cardinality(DueWritesInPass(bad_tasks[i].id)')
              IN  IF DateOnlyDue(bad_tasks[i]) THEN n <= 1 ELSE n = 1
        /\ \A k \in 1..Len(updates') :
              (updates'[k].pass = pass' /\ updates'[k].kind = "due_datetime") =>
                 updates'[k].id \in IdsOf(bad_tasks') ]_vars

\* the loop of schedule_non_recurring_tasks takes a turn on a date-only
\* candidate whose date is today
DateOnlyTodayTurn ==
  /\ pc = "place"
  /\ idx <= Len(bad_tasks)
  /\ is_date_only_task(bad_tasks[idx])
  /\ get_date(bad_tasks[idx].due) = today
  /\ (idx' # idx \/ pc' # pc)

\* the instants of today from the search start on, one interval apart
TodayFromSearchStart ==
  { t \in now_rounded..(Combine(today + 1, 0) - 1) :
      (t - now_rounded) % INTERVAL_MINUTES = 0 }

\* neither a gap of the list nor an instant of today from the search start
\* on takes the candidate's blocks
NoSlotToday(task) ==
  LET num_blocks == num_blocks_of(parse_duration_from_description(task.description))
  IN  /\ \A g \in 1..Len(gaps) :
            ~GapFits(blocked_slots, recurring_slots, life, gaps[g], num_blocks)
      /\ \A t \in TodayFromSearchStart :
            ~is_slot_available(blocked_slots, recurring_slots, life, t, num_blocks)

\* C37: a date-only candidate whose date is today is only ever given an
\* instant of today: the turn adds instants of today only to the occupied
\* set and writes a due instant of today only, and when neither the gap
\* list nor the scan restricted to today yields a slot the task is left
\* untouched, no store write and no change of the occupied set.
C37_DateOnlyStaysOnItsDay ==
  [][ DateOnlyTodayTurn =>
        /\ \A t \in blocked_slots' \ blocked_slots : DateOf(t) = today
        /\ PlacementStep =>
              /\ LastPlaced.id = bad_tasks[idx].id
              /\ DateOf(LastPlaced.start) = today
              /\ LastPlaced.start >= now_rounded
        /\ ~PlacementStep => store' = store
        /\ NoSlotToday(bad_tasks[idx]) =>
              /\ UNCHANGED << store, blocked_slots, updates, placed >>
              /\ pc' = "place" ]_vars

\* on Friday evening the timed task of 20 minutes has gone to Saturday
\* 09:00 by the unrestricted scan, and the date-only task of 20 minutes,
\* for which Friday has no room left, has been passed over untouched
C37_Witness ==
  /\ pc = "place"
  /\ today = 4
  /\ Len(bad_tasks) = 2
  /\ idx = 3
  /\ bad_tasks[1].id = 2
  /\ bad_tasks[2].id = 23
  /\ \E k \in PlacedInPass : placed[k].id = 2 /\ placed[k].start = At(5, 9, 0)
  /\ \A k \in PlacedInPass : placed[k].id # 23
  /\ InStore(store, 23).due = DateDue(4)

\* the buckets of which a keyword occurs in the text, read off the keyword
\* lists by hand: call, note (quick); read, watch, make (medium); essay,
\* study, project (long)
BucketsIn(text) ==
  IF text = <<"C","a","l","l">> THEN {"quick"}
  ELSE IF text = <<"R","E","A","D"," ","b">> THEN {"medium"}
  ELSE IF text = <<"e","s","s","a","y">> THEN {"long"}
  ELSE IF text = <<"c","a","l","l"," ","s","t","u","d","y">> THEN {"quick", "long"}
  ELSE IF text = <<"w","a","t","c","h"," ","p","r","o","j","e","c","t">>
  THEN {"medium", "long"}
  ELSE IF text = <<"n","o","t","e"," ","m","a","k","e">> THEN {"quick", "medium"}
  ELSE IF text = <<"a","l","r","e","a","d","y">> THEN {"medium"}
  ELSE {}

\* C38: estimate_heuristic tests the buckets in the order quick, medium,
\* long on the lower-cased title plus description: 10 whenever a quick
\* keyword occurs, medium or long keywords or not; else 25 if a medium
\* keyword occurs; else 45 if a long keyword occurs; else the default 30.
C38_HeuristicBucketOrder ==
  pc = "heuristic_out" =>
    LET found == BucketsIn(arg.content) \cup BucketsIn(arg.description)
    IN  ret = IF "quick" \in found THEN 10
              ELSE IF "medium" \in found THEN 25
              ELSE IF "long" \in found THEN 45
              ELSE 30

\* the title holds medium and long keywords and the description a quick
\* and a long one: 10 minutes
C38_Witness ==
  /\ pc = "heuristic_out"
  /\ arg.content = <<"w","a","t","c","h"," ","p","r","o","j","e","c","t">>
  /\ arg.description = <<"c","a","l","l"," ","s","t","u","d","y">>
  /\ ret = 10

\* the live overlay threads that have not popped their id yet
Unpopped(n) == { i \in 1..Len(n.threads) : n.threads[i].at # "popped" }

\* their ids
LiveOverlayIds(n) == { n.threads[i].task_id : i \in Unpopped(n) }

\* C39: at most one task overlay is active at any time. Whatever the
\* interleaving of check_and_notify, check_snoozed_tasks and the overlay
\* threads, active_overlays never holds more than one id and at most one
\* overlay thread is at or before the pop of its finally block; a thread is
\* started only for the id the loop thread has just inserted under
\* overlay_lock, which is then the one id in active_overlays; and every
\* thread, after a return of the overlay call as after an exception, takes
\* its id out of active_overlays and ends only after that.
C39_OneOverlayAtATime ==
  [][ /\ Cardinality(notifier'.active_overlays) <= 1
      /\ Cardinality(Unpopped(notifier')) <= 1
      /\ Len(notifier'.threads) > Len(notifier.threads) =>
           /\ notifier.at \in {"notify_start", "snoozed_start"}
           /\ notifier'.threads[Len(notifier'.threads)].task_id = notifier.task_id
           /\ notifier.active_overlays = {notifier.task_id}
           /\ notifier'.active_overlays = {notifier.task_id}
           /\ notifier.task_id \notin LiveOverlayIds(notifier)
      /\ \A i \in Unpopped(notifier) :
           (Len(notifier'.threads) = Len(notifier.threads)
              /\ notifier'.threads[i].at = "popped") =>
              /\ notifier.threads[i].task_id \in notifier.active_overlays
              /\ notifier'.active_overlays = {}
      /\ Len(notifier'.threads) < Len(notifier.threads) =>
           /\ \E i \in 1..Len(notifier.threads) :
                 /\ notifier.threads[i].at = "popped"
                 /\ notifier'.threads =
                      [j \in 1..(Len(notifier.threads) - 1) |->
                         IF j < i THEN notifier.threads[j] ELSE notifier.threads[j + 1]]
           /\ notifier'.active_overlays = notifier.active_overlays
    ]_vars

\* the overlay of t1 raised and its thread has popped t1 and not ended
\* yet; the overlay of t2, asked for by check_snoozed_tasks, is the one
\* active, and t3 is still to be reached by the loop
C39_Witness ==
  /\ pc = "overlay"
  /\ notifier.active_overlays = {"t2"}
  /\ Len(notifier.threads) = 2
  /\ notifier.threads[1].task_id = "t1"
  /\ notifier.threads[1].at = "popped"
  /\ notifier.threads[1].raised
  /\ notifier.threads[2].task_id = "t2"
  /\ notifier.threads[2].at = "show_task_overlay"
  /\ notifier.at = "check_snoozed_tasks"
  /\ notifier.todo = {"t3"}

\* the send_notification calls of the step
NewlySent == notifier'.sent \ notifier.sent

\* seconds between two times of day
SecondsApart(a, b) == IF a >= b THEN a - b ELSE b - a

\* C40 as stated: a notification is sent only for a task that is then not
\* completed, due on the day of the send and within 2 minutes of the time
\* of the send; two sends for one task id on the same day are never less
\* than 5 minutes apart; and an entry leaves the cooldown record only in a
\* call whose date differs from self.today.
C40_Original ==
  [][ /\ \A s \in NewlySent :
           /\ ~ notifier.tasks[s.task_id].completed
           /\ notifier.tasks[s.task_id].due # NoneVal
           /\ notifier.tasks[s.task_id].due \div 86400 = s.wall \div 86400
           /\ SecondsApart(notifier.tasks[s.task_id].due, s.wall) <= 2 * 60
      /\ \A s \in notifier'.sent, u \in notifier'.sent :
           ( /\ s.task_id = u.task_id
             /\ s.wall \div 86400 = u.wall \div 86400
             /\ s.wall < u.wall )
             => u.wall - s.wall >= 5 * 60
      /\ \A id \in NotifyIds :
           ( /\ notifier.last_notification_time[id] # NoneVal
             /\ notifier'.last_notification_time[id] = NoneVal )
             => notifier'.now \div 86400 # notifier.today
    ]_vars

\* C40 amended: check_and_notify notifies a task only when, in the answer
\* its fetch_tasks got, the task is not completed, is due on the day of
\* the call and its due time is within 2 minutes of the time the call read
\* at its start; two notifications of one task id by calls of the same day
\* are never less than 5 minutes apart by the times the calls read; and an
\* entry leaves the cooldown record only in a call whose date differs
\* from self.today.
C40_NotifyWindowAndCooldown ==
  [][ /\ \A s \in NewlySent :
           /\ ~ notifier.fetched[s.task_id].completed
           /\ notifier.fetched[s.task_id].due # NoneVal
           /\ notifier.fetched[s.task_id].due \div 86400 = s.at \div 86400
           /\ SecondsApart(notifier.fetched[s.task_id].due, s.at) <= 2 * 60
           /\ s.at = notifier.now
           /\ s.day = s.at \div 86400
      /\ \A s \in notifier'.sent, u \in notifier'.sent :
           (s.task_id = u.task_id /\ s.day = u.day /\ s.at < u.at)
             => u.at - s.at >= 5 * 60
      /\ \A id \in NotifyIds :
           ( /\ notifier.last_notification_time[id] # NoneVal
             /\ notifier'.last_notification_time[id]
                  # notifier.last_notification_time[id]
             /\ notifier'.last_notification_time[id] # notifier'.now )
             => /\ notifier'.last_notification_time[id] = NoneVal
                /\ notifier'.now \div 86400 # notifier.today
      /\ \A id \in NotifyIds :
           ( /\ notifier.last_notification_time[id] # NoneVal
             /\ notifier'.now \div 86400 = notifier.today )
             => notifier'.last_notification_time[id] # NoneVal
    ]_vars

\* task t1 was notified by the call of 23:50:00, exactly 2 minutes before
\* its due, and again by the call of exactly 5 minutes later after its due
\* was moved, which waited in fetch_tasks and sent on the next day; after
\* midnight the record of t1 is gone, and t2, completed in the store, was
\* notified once
C40_Witness ==
  /\ pc = "notify"
  /\ [task_id |-> "t1", at |-> Clock(0, 23, 50, 0), day |-> 0,
      wall |-> Clock(0, 23, 50, 0)] \in notifier.sent
  /\ [task_id |-> "t1", at |-> Clock(0, 23, 55, 0), day |-> 0,
      wall |-> Clock(1, 0, 0, 20)] \in notifier.sent
  /\ notifier.today = 1
  /\ notifier.last_notification_time["t1"] = NoneVal
  /\ Cardinality({ s \in notifier.sent : s.task_id = "t2" }) = 1
  /\ notifier.tasks["t2"].completed

====
